---------------------------- MODULE Spec2Model ----------------------------
(***************************************************************************)
(* A model of the XD BitTorrent client's swarm engine: the wire codec      *)
(* (lib/common wire messages), the filesystem piece store (lib/storage)    *)
(* and the per-torrent peer admission and lifecycle (lib/bittorrent/swarm). *)
(* Each subsystem has its own specification; the variables of the other    *)
(* subsystems stay at their idle values.                                   *)
(***************************************************************************)
EXTENDS Integers, Sequences, FiniteSets, Bags, TLC

VARIABLES
    \* ---- wire reader (ReadWireMessages) ----
    input,      \* the frames on the reader, each its length prefix L
    pos,        \* index of the next frame of input the reader will meet
    data,       \* msg[:4], the 4-byte header buffer (reused across iterations)
    rerr,       \* the err variable of ReadWireMessages
    rstate,     \* "running" | "returned" | "panic"
    handled,    \* indices of the frames passed to the handler f, in call order
    drained,    \* indices of the frames whose body went to util.Discard
    \* ---- wire codec round trips ----
    cmsg,       \* the message value to serialize
    cwire,      \* its WireMessage bytes
    cout,       \* the value parsed back from cwire
    \* ---- piece store (fsTorrent over FsStorage) ----
    meta,       \* the torrent manifest (metainfo.TorrentFile)
    disk,       \* the content files' bytes, in GetFiles() order
    bf,         \* fsTorrent.bf, the cached bitfield (NilBitfield = nil pointer)
    diskBf,     \* the {infohash}.bitfield file (NoFile = no such file)
    lastOp,     \* the store operation that completed last, and its result
    wbuf,       \* the buffer given to WriteAt
    woff,       \* the offset given to WriteAt and ReadAt
    rres,       \* what ReadAt returned: n, err and the buffer's bytes
    \* ---- torrent (swarm.Torrent): peers, tasks and lifecycle ----
    ibconns,    \* Torrent.ibconns: remote address -> connection
    obconns,    \* Torrent.obconns: remote address -> connection
    conns,      \* the PeerConns made so far, by id (index)
    closing,    \* Torrent.closing
    started,    \* Torrent.started
    tasks,      \* the PersistPeer and onNewPeer tasks at work, each with its position
    spawned,    \* how many tasks were started
    plist,      \* the peers the running addPeers call has still to look at
    apCalls,    \* how many addPeers calls were made
    apList,     \* the peer list of the latest addPeers call
    apFresh,    \* the addresses that had no connection when that call began
    dials,      \* remote address -> number of Network().Dial calls to it
    dialFails,  \* the addresses to which a dial or handshake did not succeed
    stopPc,     \* the position of the Stop call
    stopLeft,   \* the trackers StopAnnouncing has still to announce to
    announcers, \* Torrent.announcers: the tracker names with an entry
    ticker,     \* Torrent.announceTicker # nil
    pendingAnn, \* the announce tasks StartAnnouncing has spawned
    events,     \* what Stop and the announce tasks did, in order
    peersAtFlush, \* the number of peers in the maps when the store was flushed
    removed,   \* RemoveSelf has been invoked
    paths,     \* which of the torrent's paths exist: manifest, bitfield, content
    call,      \* the lifecycle call that returned last: its result and the state it began in
    complete,  \* what Torrent.Done() answers
    status,    \* the State of the last GetStatus
    runNew,    \* run goroutines that have not yet set started
    runLoop,   \* run goroutines in their for !t.Done() loop
    completedFired, \* how often the Completed callback was started
    netContext, \* Torrent.netContext: the transport, or nil
    suspended, \* Torrent.suspended
    netacces,  \* the mutex Torrent.netacces: free or held
    netTasks,  \* the LostNetwork, ObtainedNetwork and Network calls at work
    netSpawned, \* how many of these calls were made
    netReturns, \* the Network calls that returned: how they began and what they returned
    netFault,  \* netacces was unlocked while not held (a fatal error of the runtime)
    dropZone,  \* the infohashes of the *.torrent files in the download directory
    badFiles,  \* the *.torrent files there that do not decode
    bitfieldFiles, \* the infohashes with a bitfield file in the meta directory
    opened,    \* the infohashes of the torrents PollNewTorrents has returned
    adoptions, \* infohash -> how often a poll returned a torrent for it
    polled,    \* the infohashes the last poll returned a torrent for
    polls,     \* how many polls were made
    left,      \* the bytes the reader still delivers before it ends
    faults,    \* how many Read calls failed without ending the reader
    desync,    \* the reader no longer stands at the start of a frame
    failed,    \* how many frames were handled when a read first failed (-1: none failed)
    bfmtx,     \* the mutex fsTorrent.bfmtx: free or held
    stTasks,   \* the Flush, Close and VerifyAll calls at work on the fsTorrent
    stSpawned, \* how many of these calls were made
    writers,   \* the calls inside flushBitfield, between opening and closing the bitfield file
    maxWriters, \* the most calls that were inside flushBitfield together
    setInFlush, \* a PutPiece set a bit while a flushBitfield was encoding the bitfield
    failsLeft, \* how many more dials or handshakes the network may let fail
    manifests,        \* the manifests whose infohash is asked for, by name
    infohashes, \* what Infohash() returned for each of them
    lastChange, \* the LostNetwork or ObtainedNetwork call that began last: lost, or its transport
    remaining   \* what DownloadRemaining returned last: a uint64 as four 16-bit limbs, high limb first

wireVars  == <<input, pos, data, rerr, rstate, handled, drained>>
codecVars == <<cmsg, cwire, cout>>
storeVars == <<meta, disk, bf, diskBf, lastOp>>
rwVars    == <<wbuf, woff, rres>>
connVars  == <<ibconns, obconns, conns>>
taskVars  == <<tasks, spawned, plist, apCalls, apList, apFresh, dials, dialFails, failsLeft>>
lifeVars  == <<closing, started, stopPc, stopLeft, announcers, ticker,
               pendingAnn, events, peersAtFlush>>
swarmVars == <<connVars, taskVars, lifeVars>>
apiVars == <<removed, paths, call, complete, status, runNew, runLoop, completedFired>>
netVars == <<netContext, suspended, netacces, netTasks, netSpawned, netReturns, netFault, lastChange>>
pollVars == <<dropZone, badFiles, bitfieldFiles, opened, adoptions, polled, polls>>
readerVars == <<left, faults, desync, failed>>
flushVars == <<bfmtx, stTasks, stSpawned, writers, maxWriters, setInFlush>>
hashVars == <<manifests, infohashes>>
remVars == <<remaining>>
vars == <<wireVars, codecVars, storeVars, rwVars, swarmVars, apiVars, netVars, pollVars, readerVars, flushVars, hashVars, remVars>>

notWire  == <<codecVars, storeVars, rwVars, swarmVars, apiVars, netVars, pollVars, readerVars, flushVars, hashVars, remVars>>
notCodec == <<wireVars, storeVars, rwVars, swarmVars, apiVars, netVars, pollVars, readerVars, flushVars, hashVars, remVars>>
notStore == <<wireVars, codecVars, swarmVars, apiVars, netVars, pollVars, readerVars, flushVars, hashVars, remVars>>
notSwarm == <<wireVars, codecVars, storeVars, rwVars, apiVars, netVars, pollVars, readerVars, flushVars, hashVars, remVars>>
notApi == <<wireVars, codecVars, storeVars, rwVars, swarmVars, netVars, pollVars, readerVars, flushVars, hashVars, remVars>>
notTorrent == <<wireVars, codecVars, storeVars, rwVars, netVars, pollVars, readerVars, flushVars, hashVars, remVars>>
notNet == <<wireVars, codecVars, storeVars, rwVars, swarmVars, apiVars, pollVars, readerVars, flushVars, hashVars, remVars>>
notPoll == <<wireVars, codecVars, storeVars, rwVars, swarmVars, apiVars, netVars, readerVars, flushVars, hashVars, remVars>>
notReading == <<codecVars, storeVars, rwVars, swarmVars, apiVars, netVars, pollVars, flushVars, hashVars, remVars>>
notFlush == <<wireVars, codecVars, rwVars, swarmVars, apiVars, netVars, pollVars, readerVars, hashVars, remVars>>
notHash == <<wireVars, codecVars, storeVars, rwVars, swarmVars, apiVars, netVars, pollVars, readerVars, flushVars, remVars>>
notRem == <<wireVars, codecVars, rwVars, swarmVars, apiVars, netVars, pollVars, readerVars, flushVars, hashVars>>

Min(a, b) == IF a < b THEN a ELSE b

(***************************************************************************)
(* encoding/binary big endian, on numbers below 2^31                        *)
(***************************************************************************)
PutUint32(v) ==
    << v \div 16777216, (v \div 65536) % 256, (v \div 256) % 256, v % 256 >>

Uint32(b) == b[1] * 16777216 + b[2] * 65536 + b[3] * 256 + b[4]

(***************************************************************************)
(* Wire message ids and constructors                                       *)
(***************************************************************************)
Have == 4
Request == 6
Piece == 7
Invalid == 255

MaxWireMessageSize == 32768

NewWireMessage(id, body) == PutUint32(Len(body) + 1) \o <<id>> \o body

MsgLen(msg) == Uint32(msg)

Payload(msg) == IF MsgLen(msg) > 0 THEN SubSeq(msg, 6, Len(msg)) ELSE <<>>

MessageID(msg) == IF Len(msg) > 4 THEN msg[5] ELSE Invalid

PieceDataToWireMessage(p) ==
    NewWireMessage(Piece, PutUint32(p.Index) \o PutUint32(p.Begin) \o p.Data)

PieceRequestToWireMessage(req) ==
    NewWireMessage(Request,
        PutUint32(req.Index) \o PutUint32(req.Begin) \o PutUint32(req.Length))

ZeroPieceData == [Index |-> 0, Begin |-> 0, Data |-> <<>>]

GetPieceData(msg) ==
    IF MessageID(msg) = Piece /\ Len(Payload(msg)) > 8
    THEN [Index |-> Uint32(SubSeq(Payload(msg), 1, 4)),
          Begin |-> Uint32(SubSeq(Payload(msg), 5, 8)),
          Data  |-> SubSeq(Payload(msg), 9, Len(Payload(msg)))]
    ELSE ZeroPieceData

ZeroPieceRequest == [Index |-> 0, Begin |-> 0, Length |-> 0]

GetPieceRequest(msg) ==
    IF MessageID(msg) = Request /\ Len(Payload(msg)) = 12
    THEN [Index  |-> Uint32(SubSeq(Payload(msg), 1, 4)),
          Begin  |-> Uint32(SubSeq(Payload(msg), 5, 8)),
          Length |-> Uint32(SubSeq(Payload(msg), 9, 12))]
    ELSE ZeroPieceRequest

NewHave(idx) == NewWireMessage(Have, PutUint32(idx))

GetHave(msg) ==
    IF MessageID(msg) = Have /\ Len(Payload(msg)) = 4
    THEN Uint32(Payload(msg))
    ELSE 0

(***************************************************************************)
(* Codec specification: a message value is serialized, then parsed back.   *)
(***************************************************************************)
MaxDataLen == 2

U32Samples == {0, 1, 258, 16777217, 2147483647}
ByteSamples == {0, 255}

DataSamples == UNION {[1..n -> ByteSamples] : n \in 0..MaxDataLen}

CodecInputs ==
    [kind : {"request"}, Index : U32Samples, Begin : U32Samples, Length : U32Samples]
    \cup [kind : {"piece"}, Index : U32Samples, Begin : U32Samples, Data : DataSamples]
    \cup [kind : {"have"}, Index : U32Samples]

NoMsg == [kind |-> "none"]

Serialize ==
    /\ cmsg # NoMsg /\ cwire = <<>>
    /\ cwire' = CASE cmsg.kind = "request" ->
                       PieceRequestToWireMessage(
                           [Index |-> cmsg.Index, Begin |-> cmsg.Begin, Length |-> cmsg.Length])
                  [] cmsg.kind = "piece" ->
                       PieceDataToWireMessage(
                           [Index |-> cmsg.Index, Begin |-> cmsg.Begin, Data |-> cmsg.Data])
                  [] cmsg.kind = "have" -> NewHave(cmsg.Index)
    /\ UNCHANGED <<cmsg, cout>> /\ UNCHANGED notCodec

Parse ==
    /\ cwire # <<>> /\ cout = NoMsg
    /\ cout' = CASE cmsg.kind = "request" ->
                      [kind |-> "request", val |-> GetPieceRequest(cwire)]
                 [] cmsg.kind = "piece" ->
                      [kind |-> "piece", val |-> GetPieceData(cwire)]
                 [] cmsg.kind = "have" ->
                      [kind |-> "have", val |-> GetHave(cwire)]
    /\ UNCHANGED <<cmsg, cwire>> /\ UNCHANGED notCodec

(***************************************************************************)
(* Wire reader: one action per iteration of ReadWireMessages' loop.  The    *)
(* reader holds intact frames: a 4-byte prefix L followed by L body bytes.  *)
(***************************************************************************)
MaxFrames == 3

FrameLens == {0, 1, 32767, 32768, 32769, 10485760}

FrameStreams == UNION {[1..n -> FrameLens] : n \in 0..MaxFrames}

\* what one iteration does, given the handler's verdict ferr for this call
ReadWireMessagesBody(ferr) ==
    LET atEOF == pos > Len(input)
        \* io.ReadFull(r, data): at the end of the reader nothing is stored
        data1 == IF atEOF THEN data ELSE PutUint32(input[pos])
        err1  == IF atEOF THEN "EOF" ELSE "nil"
        l     == Uint32(data1)
    IN  /\ data' = data1
        /\ input' = input
        /\ IF l > 0
           THEN IF l < MaxWireMessageSize
                THEN \* io.CopyN(util.Discard, r, l)
                     /\ handled' = handled
                     /\ IF atEOF
                        THEN /\ rerr' = "EOF" /\ rstate' = "returned"
                             /\ UNCHANGED <<pos, drained>>
                        ELSE /\ rerr' = "nil" /\ rstate' = "running"
                             /\ pos' = pos + 1
                             /\ drained' = Append(drained, pos)
                ELSE IF 4 + l > MaxWireMessageSize + 4
                     THEN \* msg[4 : 4+l] is beyond the array: run-time panic
                          /\ rstate' = "panic"
                          /\ UNCHANGED <<pos, rerr, handled, drained>>
                     ELSE \* io.ReadFull(r, body), then f(msg[:4+l])
                          /\ drained' = drained
                          /\ IF atEOF
                             THEN /\ rerr' = "EOF" /\ rstate' = "returned"
                                  /\ UNCHANGED <<pos, handled>>
                             ELSE /\ pos' = pos + 1
                                  /\ handled' = Append(handled, pos)
                                  /\ rerr' = ferr
                                  /\ rstate' = IF ferr = "nil" THEN "running"
                                               ELSE "returned"
           ELSE \* keep-alive, or nothing read
                /\ rerr' = err1
                /\ rstate' = IF err1 = "nil" THEN "running" ELSE "returned"
                /\ pos' = IF atEOF THEN pos ELSE pos + 1
                /\ UNCHANGED <<handled, drained>>

ReadWireMessages ==
    /\ rstate = "running"
    /\ \E ferr \in {"nil", "handler"} : ReadWireMessagesBody(ferr)
    /\ UNCHANGED notWire

(***************************************************************************)
(* ReadWireMessages on a reader that may fail.  The reader delivers the     *)
(* first `left` bytes of the frames of input and then ends; before that a   *)
(* Read call may fail once without delivering anything (a timeout), and     *)
(* the next Read call goes on where the reader stood.                       *)
(***************************************************************************)
MaxFaults == 1

RECURSIVE StreamBytes(_)
StreamBytes(fr) == IF fr = <<>> THEN 0 ELSE 4 + Head(fr) + StreamBytes(Tail(fr))

\* where the reader may end: after the last frame, inside its body, inside
\* its length prefix
Cuts(fr) ==
    {StreamBytes(fr)}
        \cup (IF fr # <<>> /\ fr[Len(fr)] > 0 THEN {StreamBytes(fr) - 1} ELSE {})
        \cup (IF fr # <<>> THEN {StreamBytes(fr) - fr[Len(fr)] - 2} ELSE {})

\* io.ReadFull(r, buf) for len(buf) = want with avail bytes left on r
ReadFull(want, avail, fault) ==
    IF fault THEN [n |-> 0, err |-> "timeout"]
    ELSE IF avail >= want THEN [n |-> want, err |-> "nil"]
    ELSE IF avail = 0 THEN [n |-> 0, err |-> "EOF"]
    ELSE [n |-> avail, err |-> "ErrUnexpectedEOF"]

\* io.CopyN(util.Discard, r, want)
CopyN(want, avail, fault) ==
    IF fault THEN [n |-> 0, err |-> "timeout"]
    ELSE IF avail >= want THEN [n |-> want, err |-> "nil"]
    ELSE [n |-> avail, err |-> "EOF"]

\* one iteration of the loop: hv is the length prefix standing on the reader,
\* hfault and bfault tell whether the prefix read and the body read time out,
\* ferr is the handler's verdict
ReadFailingBody(hv, hfault, bfault, ferr) ==
    LET hr    == ReadFull(4, left, hfault)
        \* the bytes read go to msg[:4]; the rest of it keeps what it held
        data1 == [i \in 1..4 |-> IF i <= hr.n THEN PutUint32(hv)[i] ELSE data[i]]
        l     == Uint32(data1)
        avail == left - hr.n
        big   == l > 0 /\ l >= MaxWireMessageSize /\ 4 + l > MaxWireMessageSize + 4
        br    == IF l = 0 \/ big THEN [n |-> 0, err |-> "nil"]
                 ELSE IF l < MaxWireMessageSize THEN CopyN(l, avail, bfault)
                 ELSE ReadFull(l, avail, bfault)
        bodyRead == l > 0 /\ ~big
        called   == bodyRead /\ l >= MaxWireMessageSize /\ br.err = "nil"
        err1  == IF l = 0 THEN hr.err ELSE IF called THEN ferr ELSE br.err
        inFrame == ~desync /\ hr.err = "nil"
    IN  /\ bfault => bodyRead
        /\ faults + (IF hfault THEN 1 ELSE 0) + (IF bfault THEN 1 ELSE 0) <= MaxFaults
        /\ faults' = faults + (IF hfault THEN 1 ELSE 0) + (IF bfault THEN 1 ELSE 0)
        /\ data' = data1
        /\ input' = input
        /\ left' = left - hr.n - br.n
        /\ failed' = IF failed # -1 THEN failed
                     ELSE IF hr.err # "nil" \/ br.err # "nil" THEN Len(handled)
                     ELSE -1
        /\ desync' = (desync \/ (hr.err # "nil" /\ hr.n + br.n > 0))
        /\ pos' = IF inFrame /\ br.err = "nil" /\ ~big THEN pos + 1 ELSE pos
        /\ IF big
           THEN \* msg[4 : 4+l] is beyond the array: run-time panic
                /\ rstate' = "panic"
                /\ UNCHANGED <<rerr, handled, drained>>
           ELSE /\ rerr' = err1
                /\ rstate' = IF err1 = "nil" THEN "running" ELSE "returned"
                /\ handled' = IF called THEN Append(handled, pos) ELSE handled
                /\ drained' = IF inFrame /\ bodyRead /\ ~called /\ br.err = "nil"
                              THEN Append(drained, pos)
                              ELSE drained

\* The iterations are followed as long as the reader stands at the start of
\* a frame of input: once bytes were consumed after a failed prefix read,
\* what the next prefix read finds is no longer a length prefix.
ReadWireMessagesFailing ==
    /\ rstate = "running"
    /\ ~desync
    /\ \E hfault \in BOOLEAN, bfault \in BOOLEAN, ferr \in {"nil", "handler"} :
          ReadFailingBody(IF pos <= Len(input) THEN input[pos] ELSE 0,
                          hfault, bfault, ferr)
    /\ UNCHANGED notReading

(***************************************************************************)
(* TorrentFile.Infohash.  An info dictionary is its name, piece length and  *)
(* meta version (0: the field is absent).  The SHA-1 of its encoding is an  *)
(* injective function of it; an infohash is its version and its digest.    *)
(***************************************************************************)
Infos == [Path : {"x", "y"}, PieceLength : {1, 2}, MetaVersion : {0, 1, 2}]

ZeroDigest == [Path |-> "", PieceLength |-> 0, MetaVersion |-> 0]

NoHash == [v |-> 0, digest |-> ZeroDigest]

IsV1Only(i) == i.MetaVersion = 0

InfohashV1(i) == [v |-> 1, digest |-> i]

\* the zero value of common.InfohashV2
InfohashV2(i) == [v |-> 2, digest |-> ZeroDigest]

Infohash(i) == IF IsV1Only(i) THEN InfohashV1(i) ELSE InfohashV2(i)

\* the files of the meta directory named after the infohash
bitfieldFilename(h) == <<h, ".bitfield">>

metainfoFilename(h) == <<h, ".torrent">>

CallInfohash(x) ==
    /\ infohashes[x] = NoHash
    /\ infohashes' = [infohashes EXCEPT ![x] = Infohash(manifests[x])]
    /\ UNCHANGED <<manifests, notHash>>

HashNext == \E x \in DOMAIN manifests : CallInfohash(x)

(***************************************************************************)
(* Manifest (metainfo.TorrentFile).  A piece digest stands for SHA-1: an    *)
(* injective function of the piece's bytes.                                *)
(***************************************************************************)
Bytes == {0, 1}

Sha1(d) == [sha1 |-> d]

RECURSIVE SumSeq(_)
SumSeq(s) == IF s = <<>> THEN 0 ELSE Head(s) + SumSeq(Tail(s))

IsSingleFile(m) == m.Length > 0

GetFiles(m) == IF m.Length > 0 THEN <<m.Length>> ELSE m.Files

TotalSize(m) == IF IsSingleFile(m) THEN m.Length ELSE SumSeq(m.Files)

NumPieces(m) == Len(m.Pieces)

LengthOfPiece(m, idx) ==
    IF NumPieces(m) = idx + 1
    THEN m.PieceLength - ((NumPieces(m) * m.PieceLength) - TotalSize(m))
    ELSE m.PieceLength

CheckPiece(m, p) ==
    IF NumPieces(m) > p.Index
    THEN Sha1(p.Data) = m.Pieces[p.Index + 1]
    ELSE FALSE

\* the manifest of content c cut into pieces of length pl
Manifest(length, files, pl, c) ==
    [Length |-> length, Files |-> files, PieceLength |-> pl,
     Pieces |-> [i \in 1..((Len(c) + pl - 1) \div pl) |->
                    Sha1(SubSeq(c, (i - 1) * pl + 1, Min(i * pl, Len(c))))]]

(***************************************************************************)
(* Files of the fs driver: positional reads and writes as os.File does     *)
(* them.                                                                   *)
(***************************************************************************)
Zeros(n) == [i \in 1..n |-> 0]

\* fs.ReadFile.ReadAt(b, off) with len(b) = n
FileReadAt(content, n, off) ==
    LET avail == IF Len(content) > off THEN Len(content) - off ELSE 0
        got   == Min(n, avail)
    IN  [n |-> got, bytes |-> SubSeq(content, off + 1, off + got),
         err |-> IF got < n THEN "EOF" ELSE "nil"]

\* fs.WriteFile.WriteAt(p, off): the file's bytes afterwards
FileWriteAt(content, p, off) ==
    LET padded == IF Len(content) < off
                  THEN content \o Zeros(off - Len(content)) ELSE content
    IN  SubSeq(padded, 1, off) \o p
            \o SubSeq(padded, off + Len(p) + 1, Len(padded))

(***************************************************************************)
(* fsTorrent.readFileAt, ReadAt and WriteAt                                *)
(***************************************************************************)
\* the loop of readFileAt: b has n bytes left to fill, acc is what was read
RECURSIVE readFileLoop(_, _, _, _, _)
readFileLoop(content, fil, n, off, acc) ==
    IF off < fil /\ n # 0
    THEN LET r == FileReadAt(content, n, off)
         IN  IF r.n = 0
             THEN [n |-> Len(acc), bytes |-> acc, err |-> r.err]
             ELSE readFileLoop(content, fil, n - r.n, off + r.n, acc \o r.bytes)
    ELSE [n |-> Len(acc), bytes |-> acc, err |-> "nil"]

readFileAt(d, m, i, n, off) ==
    LET fil == GetFiles(m)[i]
        lim == IF n > fil - off THEN fil - off ELSE n
    IN  readFileLoop(d[i], fil, lim, off, <<>>)

\* ReadAt from file i on: n bytes of b are still to fill, acc is what was read
RECURSIVE ReadAtFrom(_, _, _, _, _, _)
ReadAtFrom(d, m, i, n, off, acc) ==
    IF i > Len(GetFiles(m))
    THEN [n |-> Len(acc), bytes |-> acc, err |-> "EOF"]
    ELSE LET fil == GetFiles(m)[i]
         IN  IF off < fil
             THEN LET r == readFileAt(d, m, i, n, off)
                  IN  IF n - r.n = 0
                      THEN [n |-> Len(acc) + r.n, bytes |-> acc \o r.bytes,
                            err |-> "nil"]
                      ELSE IF r.n # 0
                      THEN ReadAtFrom(d, m, i, n - r.n, off + r.n, acc \o r.bytes)
                      ELSE [n |-> Len(acc), bytes |-> acc,
                            err |-> IF r.err = "EOF" THEN "UnexpectedEOF"
                                    ELSE r.err]
             ELSE ReadAtFrom(d, m, i + 1, n, off - fil, acc)

ReadAt(d, m, n, off) == ReadAtFrom(d, m, 1, n, off, <<>>)

\* WriteAt from file i on; failAt is the file whose open fails (0: none does)
RECURSIVE WriteAtFrom(_, _, _, _, _, _, _)
WriteAtFrom(d, m, i, p, off, n, failAt) ==
    IF i > Len(GetFiles(m))
    THEN [n |-> n, err |-> "nil", disk |-> d]
    ELSE LET fil == GetFiles(m)[i]
         IN  IF off >= fil
             THEN WriteAtFrom(d, m, i + 1, p, off - fil, n, failAt)
             ELSE LET n1 == IF Len(p) > fil - off THEN fil - off ELSE Len(p)
                      d1 == [d EXCEPT ![i] = FileWriteAt(d[i], SubSeq(p, 1, n1), off)]
                      rest == SubSeq(p, n1 + 1, Len(p))
                  IN  IF failAt = i
                      THEN [n |-> n, err |-> "io", disk |-> d]
                      ELSE IF rest = <<>>
                      THEN [n |-> n + n1, err |-> "nil", disk |-> d1]
                      ELSE WriteAtFrom(d1, m, i + 1, rest, 0, n + n1, failAt)

\* WriteAt that ignores its offset: the seeded fault that the read-back
\* property must detect
WriteAtStart(d, m, p, off, failAt) == WriteAtFrom(d, m, 1, p, 0, 0, failAt)

WriteAt(d, m, p, off, failAt) == WriteAtFrom(d, m, 1, p, off, 0, failAt)

(***************************************************************************)
(* Bitfield (lib/bittorrent): a set of piece indices.  The bitfield file    *)
(* holds the flushed bitfield's value.                                     *)
(***************************************************************************)
NewBitfield == {}

Inverted(np) == 0..(np - 1)

BfSet(b, i) == b \cup {i}

BfHas(b, i) == i \in b

\* the nil *Bitfield of an fsTorrent whose Bitfield() was never called, and
\* the absent bitfield file
NilBitfield == {-1}
NoFile == {-1}

(***************************************************************************)
(* fsTorrent operations                                                    *)
(***************************************************************************)
\* fsTorrent.Bitfield(): the cached bitfield and the bitfield file afterwards
Bitfield(b, dbf) ==
    IF b = NilBitfield
    THEN LET created == IF dbf = NoFile THEN NewBitfield ELSE dbf
         IN  [bf |-> created, diskBf |-> created]
    ELSE [bf |-> b, diskBf |-> dbf]

\* VisitPiece(&PieceRequest{Index: idx, Length: l}, t.checkPiece)
VisitPieceCheck(d, m, idx) ==
    LET r == ReadAt(d, m, LengthOfPiece(m, idx), m.PieceLength * idx)
    IN  IF r.err # "nil" THEN r.err
        ELSE IF CheckPiece(m, [Index |-> idx, Data |-> r.bytes]) THEN "nil"
        ELSE "ErrInvalidPiece"

\* the loop of verifyBitfield from piece idx on
RECURSIVE verifyLoop(_, _, _, _, _, _)
verifyLoop(d, m, check, idx, has, err) ==
    IF idx < NumPieces(m)
    THEN IF BfHas(check, idx)
         THEN LET e == VisitPieceCheck(d, m, idx)
              IN  verifyLoop(d, m, check, idx + 1,
                             IF e = "nil" THEN BfSet(has, idx) ELSE has, e)
         ELSE verifyLoop(d, m, check, idx + 1, has, err)
    ELSE [has |-> has, err |-> err]

verifyBitfield(d, m, check) == verifyLoop(d, m, check, 0, NewBitfield, "nil")

\* the last call: idx is its piece index, and 1 for a VerifyAll with fresh set
Op(op, idx, res) == [op |-> op, idx |-> idx, res |-> res]

Crashed == lastOp.res = "panic"

\* PutPiece that sets the bit before it knows the write succeeded: the seeded
\* fault that the failed-put property must detect
PutPieceSetsBitFirst(idx, dat, failAt) ==
    /\ ~Crashed
    /\ UNCHANGED <<rwVars, notStore>>
    /\ UNCHANGED <<meta, diskBf>>
    /\ LET w == WriteAt(disk, meta, dat, meta.PieceLength * idx, failAt)
           e == IF ~CheckPiece(meta, [Index |-> idx, Data |-> dat])
                THEN "ErrInvalidPiece" ELSE w.err
       IN  /\ disk' = w.disk
           /\ bf' = IF bf = NilBitfield THEN bf ELSE BfSet(bf, idx)
           /\ lastOp' = Op("PutPiece", idx, e)

PutPiece(idx, dat, failAt) ==
    /\ ~Crashed
    /\ UNCHANGED <<rwVars, notStore>>
    /\ UNCHANGED <<meta, diskBf>>
    /\ IF ~CheckPiece(meta, [Index |-> idx, Data |-> dat])
       THEN /\ lastOp' = Op("PutPiece", idx, "ErrInvalidPiece")
            /\ UNCHANGED <<disk, bf>>
       ELSE LET w == WriteAt(disk, meta, dat, meta.PieceLength * idx, failAt)
            IN  /\ disk' = w.disk
                /\ IF w.err # "nil"
                   THEN lastOp' = Op("PutPiece", idx, w.err) /\ bf' = bf
                   ELSE IF bf = NilBitfield
                   THEN \* t.bf.Set on the nil bitfield of a fresh fsTorrent
                        lastOp' = Op("PutPiece", idx, "panic") /\ bf' = bf
                   ELSE lastOp' = Op("PutPiece", idx, "nil") /\ bf' = BfSet(bf, idx)

VerifyAll(fresh) ==
    /\ ~Crashed
    /\ UNCHANGED <<rwVars, notStore>>
    /\ UNCHANGED <<meta, disk>>
    /\ LET stored == diskBf
           check  == IF stored = NoFile THEN Inverted(NumPieces(meta)) ELSE stored
           v      == verifyBitfield(disk, meta, check)
       IN  IF stored = NoFile /\ fresh
           THEN /\ diskBf' = v.has
                /\ bf' = bf
                /\ lastOp' = Op("VerifyAll", IF fresh THEN 1 ELSE 0, v.err)
           ELSE /\ bf' = v.has
                /\ diskBf' = IF v.err = "nil" THEN v.has ELSE diskBf
                /\ lastOp' = Op("VerifyAll", IF fresh THEN 1 ELSE 0, v.err)

\* Flush, and Close which only calls it
Flush(op) ==
    /\ ~Crashed
    /\ UNCHANGED <<rwVars, notStore>>
    /\ LET b == Bitfield(bf, diskBf)
       IN  bf' = b.bf /\ diskBf' = b.bf
    /\ lastOp' = Op(op, 0, "nil")
    /\ UNCHANGED <<meta, disk>>

CallBitfield ==
    /\ ~Crashed
    /\ UNCHANGED <<rwVars, notStore>>
    /\ LET b == Bitfield(bf, diskBf)
       IN  bf' = b.bf /\ diskBf' = b.diskBf
    /\ lastOp' = Op("Bitfield", 0, "nil")
    /\ UNCHANGED <<meta, disk>>

(***************************************************************************)
(* uint64 arithmetic.  A uint64 is four 16-bit limbs, the high limb first,  *)
(* so that a difference below zero wraps around as the machine's does.     *)
(***************************************************************************)
Limb == 65536

\* uint64(n) for a number below 2^31
ToUint64(n) == <<0, 0, n \div Limb, n % Limb>>

\* the limbs k..1 of a - b, given the limbs above k in acc; borrow is what
\* the limb below took
RECURSIVE SubLimbs(_, _, _, _, _)
SubLimbs(a, b, k, borrow, acc) ==
    IF k = 0 THEN acc
    ELSE LET d == a[k] - b[k] - borrow
         IN  SubLimbs(a, b, k - 1, IF d < 0 THEN 1 ELSE 0,
                      <<(d + Limb) % Limb>> \o acc)

\* a - b on uint64
Sub64(a, b) == SubLimbs(a, b, 4, 0, <<>>)

\* a <= b on uint64
RECURSIVE LeLimbs(_, _, _)
LeLimbs(a, b, k) ==
    IF k > 4 THEN TRUE
    ELSE IF a[k] # b[k] THEN a[k] < b[k]
    ELSE LeLimbs(a, b, k + 1)

Le64(a, b) == LeLimbs(a, b, 1)

\* DownloadRemaining: have := uint64(bf.CountSet()) * uint64(PieceLength);
\* r = t.meta.TotalSize() - have
DownloadRemaining ==
    /\ ~Crashed
    /\ LET b    == Bitfield(bf, diskBf)
           have == Cardinality(b.bf) * meta.PieceLength
       IN  /\ bf' = b.bf /\ diskBf' = b.diskBf
           /\ remaining' = Sub64(ToUint64(TotalSize(meta)), ToUint64(have))
    /\ lastOp' = Op("DownloadRemaining", 0, "nil")
    /\ UNCHANGED <<meta, disk>>
    /\ UNCHANGED notRem

\* the process starts again after a crash: OpenTorrent makes a new fsTorrent
OpenTorrent ==
    /\ Crashed
    /\ UNCHANGED <<rwVars, notStore>>
    /\ bf' = NilBitfield
    /\ lastOp' = Op("OpenTorrent", 0, "nil")
    /\ UNCHANGED <<meta, disk, diskBf>>

(***************************************************************************)
(* Store specification.  The torrent has just been opened: the content     *)
(* files are allocated to their lengths and hold any bytes (pre-placed or   *)
(* altered data), and a bitfield file of an earlier run may exist.          *)
(***************************************************************************)
MaxPieceData == 2

\* c cut into files of the given lengths
RECURSIVE Split(_, _)
Split(c, lens) ==
    IF lens = <<>> THEN <<>>
    ELSE <<SubSeq(c, 1, Head(lens))>>
             \o Split(SubSeq(c, Head(lens) + 1, Len(c)), Tail(lens))

AllDisks(m) == {Split(c, GetFiles(m)) : c \in [1..TotalSize(m) -> Bytes]}

StoreManifests ==
    { Manifest(4, <<>>, 2, <<1, 0, 1, 1>>),
      Manifest(0, <<1, 0, 2>>, 2, <<1, 0, 1>>) }

PieceDatas == UNION {[1..n -> Bytes] : n \in 0..MaxPieceData}

StoreNext ==
    \/ \E idx \in 0..NumPieces(meta), dat \in PieceDatas,
          failAt \in 0..Len(GetFiles(meta)) : PutPiece(idx, dat, failAt)
    \/ \E fresh \in BOOLEAN : VerifyAll(fresh)
    \/ \E op \in {"Flush", "Close"} : Flush(op)
    \/ CallBitfield
    \/ DownloadRemaining
    \/ OpenTorrent

(***************************************************************************)
(* Concurrent calls on one fsTorrent: Flush, Close and VerifyAll run as     *)
(* tasks, one action per step between two points where another task may    *)
(* run; PutPiece of a matching piece runs beside them.  A task's val is the *)
(* bitfield it has to write, NilBitfield standing for the torrent's own.    *)
(***************************************************************************)
MaxStoreTasks == 2

StoreTask(op, pc, fresh) ==
    [op |-> op, pc |-> pc, fresh |-> fresh, locked |-> FALSE, val |-> NilBitfield]

StoreRunning(pc) == {t \in BagToSet(stTasks) : t.pc = pc}

StoreGoto(t, t2) ==
    IF t2.pc = "done" THEN stTasks (-) SetToBag({t})
    ELSE (stTasks (-) SetToBag({t})) (+) SetToBag({t2})

\* Flush() or Close() is called
FlushCall(op) ==
    /\ stSpawned < MaxStoreTasks
    /\ stSpawned' = stSpawned + 1
    /\ stTasks' = stTasks (+) SetToBag({StoreTask(op, "bitfield", FALSE)})
    /\ UNCHANGED <<bfmtx, writers, maxWriters, setInFlush, storeVars, notFlush>>

\* VerifyAll(fresh) is called
VerifyAllCall(fresh) ==
    /\ stSpawned < MaxStoreTasks
    /\ stSpawned' = stSpawned + 1
    /\ stTasks' = stTasks (+) SetToBag({StoreTask("VerifyAll", "lock", fresh)})
    /\ UNCHANGED <<bfmtx, writers, maxWriters, setInFlush, storeVars, notFlush>>

\* Flush: bf := t.Bitfield(), which holds bfmtx from its first line to its last
FlushBitfield(t) ==
    /\ t \in StoreRunning("bitfield")
    /\ bfmtx = "free"
    /\ LET b == Bitfield(bf, diskBf)
       IN  bf' = b.bf /\ diskBf' = b.diskBf
    /\ stTasks' = StoreGoto(t, [t EXCEPT !.pc = "open"])
    /\ UNCHANGED <<meta, disk, lastOp>>
    /\ UNCHANGED <<bfmtx, stSpawned, writers, maxWriters, setInFlush, notFlush>>

\* flushBitfield: st.FS.OpenFileWriteOnly(fname)
FlushOpen(t) ==
    /\ t \in StoreRunning("open")
    /\ writers' = writers + 1
    /\ maxWriters' = IF writers + 1 > maxWriters THEN writers + 1 ELSE maxWriters
    /\ stTasks' = StoreGoto(t, [t EXCEPT !.pc = "encode"])
    /\ UNCHANGED <<bfmtx, stSpawned, setInFlush, storeVars, notFlush>>

\* flushBitfield: bf.BEncode(f); f.Close(); and the Unlock of VerifyAll when
\* the call came from its fresh branch
FlushEncode(t) ==
    /\ t \in StoreRunning("encode")
    /\ diskBf' = IF t.val = NilBitfield THEN bf ELSE t.val
    /\ writers' = writers - 1
    /\ bfmtx' = IF t.locked THEN "free" ELSE bfmtx
    /\ stTasks' = StoreGoto(t, [t EXCEPT !.pc = "done"])
    /\ UNCHANGED <<meta, disk, bf, lastOp>>
    /\ UNCHANGED <<stSpawned, maxWriters, setInFlush, notFlush>>

\* VerifyAll: t.bfmtx.Lock()
VerifyAllLock(t) ==
    /\ t \in StoreRunning("lock")
    /\ bfmtx = "free"
    /\ bfmtx' = "held"
    /\ stTasks' = StoreGoto(t, [t EXCEPT !.pc = "verify", !.locked = TRUE])
    /\ UNCHANGED <<stSpawned, writers, maxWriters, setInFlush, storeVars, notFlush>>

\* VerifyAll from FindBitfield to the Unlock before its Flush, or, in the
\* fresh branch, to its call of flushBitfield with bfmtx held
VerifyAllVerify(t) ==
    /\ t \in StoreRunning("verify")
    /\ LET check == IF diskBf = NoFile THEN Inverted(NumPieces(meta)) ELSE diskBf
           v     == verifyBitfield(disk, meta, check)
       IN  IF diskBf = NoFile /\ t.fresh
           THEN /\ stTasks' = StoreGoto(t, [t EXCEPT !.pc = "open", !.val = v.has])
                /\ UNCHANGED <<bf, bfmtx>>
           ELSE /\ bf' = v.has
                /\ bfmtx' = "free"
                /\ stTasks' = StoreGoto(t, [t EXCEPT !.locked = FALSE,
                                  !.pc = IF v.err = "nil" THEN "bitfield" ELSE "done"])
    /\ UNCHANGED <<meta, disk, diskBf, lastOp>>
    /\ UNCHANGED <<stSpawned, writers, maxWriters, setInFlush, notFlush>>

\* PutPiece of a piece that matches, on a torrent whose bitfield is loaded,
\* beside the calls at work: WriteAt, then t.bf.Set(pc.Index)
PutPieceBeside(idx, dat) ==
    /\ bf # NilBitfield
    /\ idx < NumPieces(meta)
    /\ ~BfHas(bf, idx)
    /\ CheckPiece(meta, [Index |-> idx, Data |-> dat])
    /\ LET w == WriteAt(disk, meta, dat, meta.PieceLength * idx, 0)
       IN  w.err = "nil" /\ disk' = w.disk
    /\ bf' = BfSet(bf, idx)
    /\ setInFlush' = (setInFlush \/ \E t \in StoreRunning("encode") : t.val = NilBitfield)
    /\ UNCHANGED <<meta, diskBf, lastOp>>
    /\ UNCHANGED <<bfmtx, stTasks, stSpawned, writers, maxWriters, notFlush>>

FlushNext ==
    \/ \E op \in {"Flush", "Close"} : FlushCall(op)
    \/ \E fresh \in BOOLEAN : VerifyAllCall(fresh)
    \/ \E t \in BagToSet(stTasks) :
          \/ FlushBitfield(t)
          \/ FlushOpen(t)
          \/ FlushEncode(t)
          \/ VerifyAllLock(t)
          \/ VerifyAllVerify(t)
    \/ \E idx \in 0..NumPieces(meta), dat \in PieceDatas : PutPieceBeside(idx, dat)

(***************************************************************************)
(* Read/write specification: WriteAt(x, off), then ReadAt(buf, off) with    *)
(* len(buf) = len(x), on allocated files.                                  *)
(***************************************************************************)
MaxBuf == 3

RWManifests ==
    { Manifest(4, <<>>, 2, <<1, 0, 1, 1>>),
      Manifest(0, <<1, 0, 2>>, 2, <<1, 0, 1>>),
      Manifest(0, <<0, 2, 0, 1, 1, 0>>, 4, <<1, 1, 0, 1>>) }

Unread == [n |-> 0, bytes |-> <<>>, err |-> "unread"]

DoWriteAt(x, off) ==
    /\ off + Len(x) <= TotalSize(meta)
    /\ LET w == WriteAt(disk, meta, x, off, 0)
       IN  /\ disk' = w.disk
           /\ lastOp' = Op("WriteAt", w.n, w.err)
    /\ wbuf' = x /\ woff' = off /\ rres' = Unread
    /\ UNCHANGED <<meta, bf, diskBf>> /\ UNCHANGED notStore

DoReadAt ==
    /\ lastOp.op = "WriteAt"
    /\ rres' = ReadAt(disk, meta, Len(wbuf), woff)
    /\ lastOp' = Op("ReadAt", 0, "nil")
    /\ UNCHANGED <<meta, disk, bf, diskBf, wbuf, woff>> /\ UNCHANGED notStore

RWNext ==
    \/ \E off \in 0..TotalSize(meta),
          x \in UNION {[1..n -> Bytes] : n \in 0..MaxBuf} : DoWriteAt(x, off)
    \/ DoReadAt

(***************************************************************************)
(* Torrent: peer admission.  Tasks run concurrently; a step is one access   *)
(* to the connection maps under connMtx, or one blocking network call.      *)
(***************************************************************************)
MaxTasks == 2
MaxPeerList == 2
MaxCalls == 1
MaxDialFails == 1

Self == "self"
Remotes == {"a", "b"}
Unresolvable == "unresolvable"
Trackers == {"t1", "t2"}

\* triesLeft := 10
InitialTries == 10

EmptyMap == [a \in {} |-> 0]

MapPut(m, k, v) == [x \in DOMAIN m \cup {k} |-> IF x = k THEN v ELSE m[x]]

MapDel(m, k) == [x \in DOMAIN m \ {k} |-> m[x]]

HasIBConn(a) == a \in DOMAIN ibconns

HasOBConn(a) == a \in DOMAIN obconns

\* the connections VisitPeers hands to its visitor
VisitPeers == {obconns[a] : a \in DOMAIN obconns} \cup {ibconns[a] : a \in DOMAIN ibconns}

NumPeers == Cardinality(DOMAIN obconns) + Cardinality(DOMAIN ibconns)

\* out: the messages enqueued to the peer with Send, in order
PeerConn(a, inbound) ==
    [addr |-> a, inbound |-> inbound, started |-> FALSE, closed |-> FALSE,
     gone |-> FALSE, out |-> <<>>]

Task(kind, a, pc) == [kind |-> kind, addr |-> a, pc |-> pc,
                      tries |-> InitialTries, conn |-> 0]

\* the tasks are a bag of task records: a task has no identity but its state
Spawn(t) == tasks (+) SetToBag({t})

\* task t becomes t2
Replace(t, t2) == (tasks (-) SetToBag({t})) (+) SetToBag({t2})

\* task t moves on to pc, or ends
Goto(t, pc) ==
    IF pc = "done" THEN tasks (-) SetToBag({t})
    ELSE Replace(t, [t EXCEPT !.pc = pc])

Running(kind, pc) == {t \in BagToSet(tasks) : t.kind = kind /\ t.pc = pc}

PeerLists == UNION {[1..n -> Remotes \cup {Self, Unresolvable}] : n \in 1..MaxPeerList}

\* an announce or PEX response arrives: addPeers(peers) is called
addPeersCall(peers) ==
    /\ plist = <<>>
    /\ apCalls < MaxCalls
    /\ spawned + Len(peers) <= MaxTasks
    /\ plist' = peers
    /\ apCalls' = apCalls + 1
    /\ apList' = peers
    /\ apFresh' = (Remotes \cup {Self}) \ (DOMAIN obconns \cup DOMAIN ibconns)
    /\ UNCHANGED <<tasks, spawned, dials, dialFails, failsLeft, connVars, lifeVars, notSwarm>>

\* addPeers' loop without the comparison with our own address: the seeded
\* fault that the self-contact property must detect
addPeersNoSelfCheck ==
    /\ plist # <<>>
    /\ plist' = Tail(plist)
    /\ LET p == Head(plist)
           skip == p = Unresolvable \/ HasOBConn(p)
       IN  /\ tasks' = IF skip THEN tasks ELSE Spawn(Task("persist", p, "loop"))
           /\ spawned' = IF skip THEN spawned ELSE spawned + 1
    /\ UNCHANGED <<apCalls, apList, apFresh, dials, dialFails, failsLeft, connVars,
                   lifeVars, notSwarm>>

\* one iteration of addPeers' loop, on the peer p
addPeers ==
    /\ plist # <<>>
    /\ plist' = Tail(plist)
    /\ LET p == Head(plist)
           skip == p = Unresolvable \/ p = Self \/ HasOBConn(p)
       IN  /\ tasks' = IF skip THEN tasks ELSE Spawn(Task("persist", p, "loop"))
           /\ spawned' = IF skip THEN spawned ELSE spawned + 1
    /\ UNCHANGED <<apCalls, apList, apFresh, dials, dialFails, failsLeft, connVars,
                   lifeVars, notSwarm>>

\* PersistPeer: for !t.closing
PersistLoop(t) ==
    /\ t \in Running("persist", "loop")
    /\ tasks' = Goto(t, IF closing THEN "done" ELSE "hasIB")
    /\ UNCHANGED <<plist, spawned, apCalls, apList, apFresh, dials, dialFails, failsLeft,
                   connVars, lifeVars, notSwarm>>

\* PersistPeer: if t.HasIBConn(a) { return }
PersistHasIB(t) ==
    /\ t \in Running("persist", "hasIB")
    /\ tasks' = Goto(t, IF HasIBConn(t.addr) THEN "done" ELSE "hasOB")
    /\ UNCHANGED <<plist, spawned, apCalls, apList, apFresh, dials, dialFails, failsLeft,
                   connVars, lifeVars, notSwarm>>

\* PersistPeer: if !t.HasOBConn(a) { DialPeer } else { Sleep }
PersistHasOB(t) ==
    /\ t \in Running("persist", "hasOB")
    /\ tasks' = Goto(t, IF ~HasOBConn(t.addr) THEN "dialCheck" ELSE "loop")
    /\ UNCHANGED <<plist, spawned, apCalls, apList, apFresh, dials, dialFails, failsLeft,
                   connVars, lifeVars, notSwarm>>

\* DialPeer: if t.HasOBConn(a) { return nil }
DialPeer(t) ==
    /\ t \in Running("persist", "dialCheck")
    /\ tasks' = Goto(t, IF HasOBConn(t.addr) THEN "done" ELSE "dial")
    /\ UNCHANGED <<plist, spawned, apCalls, apList, apFresh, dials, dialFails, failsLeft,
                   connVars, lifeVars, notSwarm>>

\* PersistPeer that does not count its failed dials: the seeded fault that
\* the bounded-retry property must detect
AfterDialErrorUncounted(t) == Replace(t, [t EXCEPT !.pc = "loop"])

\* PersistPeer after DialPeer returned an error: triesLeft--
AfterDialError(t) ==
    IF t.tries - 1 <= 0
    THEN tasks (-) SetToBag({t})
    ELSE Replace(t, [t EXCEPT !.tries = t.tries - 1, !.pc = "loop"])

\* DialPeer: t.Network().Dial(a.Network(), a.String())
Dial(t, ok) ==
    /\ t \in Running("persist", "dial")
    /\ ok \/ failsLeft > 0
    /\ failsLeft' = IF ok THEN failsLeft ELSE failsLeft - 1
    /\ dials' = [dials EXCEPT ![t.addr] = @ + 1]
    /\ IF ok
       THEN /\ tasks' = Goto(t, "handshake")
            /\ dialFails' = dialFails
       ELSE /\ tasks' = AfterDialError(t)
            /\ dialFails' = dialFails \cup {t.addr}
    /\ UNCHANGED <<plist, spawned, apCalls, apList, apFresh, connVars, lifeVars,
                   notSwarm>>

\* DialPeer: the handshake is sent and the reply read; hs is how that ends:
\* "error" (Send or Recv failed), "mismatch" (another infohash), "match"
Handshake(t, hs) ==
    /\ t \in Running("persist", "handshake")
    /\ hs = "match" \/ failsLeft > 0
    /\ failsLeft' = IF hs = "match" THEN failsLeft ELSE failsLeft - 1
    /\ CASE hs = "error" ->
              /\ tasks' = AfterDialError(t)
              /\ dialFails' = dialFails \cup {t.addr}
              /\ UNCHANGED connVars
         [] hs = "mismatch" ->
              \* err is nil here: DialPeer returns nil and PersistPeer returns
              /\ tasks' = Goto(t, "done")
              /\ dialFails' = dialFails \cup {t.addr}
              /\ UNCHANGED connVars
         [] hs = "match" ->
              \* makePeerConn, then addOBPeer
              /\ conns' = Append(conns, PeerConn(t.addr, FALSE))
              /\ obconns' = MapPut(obconns, t.addr, Len(conns) + 1)
              /\ tasks' = Replace(t, [t EXCEPT !.conn = Len(conns) + 1,
                                                !.pc = "start"])
              /\ UNCHANGED <<ibconns, dialFails, failsLeft>>
    /\ UNCHANGED <<plist, spawned, apCalls, apList, apFresh, dials, lifeVars,
                   notSwarm>>

\* DialPeer and onNewPeer: pc.start(); pc.Send(t.Bitfield().ToWireMessage())
StartConn(t) ==
    /\ t \in BagToSet(tasks) /\ t.pc = "start"
    /\ conns' = [conns EXCEPT ![t.conn].started = TRUE,
                               ![t.conn].out = Append(@, "bitfield")]
    /\ tasks' = Goto(t, "done")
    /\ UNCHANGED <<ibconns, obconns, plist, spawned, apCalls, apList, apFresh,
                   dials, dialFails, failsLeft, lifeVars, notSwarm>>

\* a remote peer has connected and shaken hands: onNewPeer(c) begins
InboundArrives(a) ==
    /\ spawned < MaxTasks
    /\ plist = <<>>
    /\ tasks' = Spawn(Task("inbound", a, "hasIB"))
    /\ spawned' = spawned + 1
    /\ UNCHANGED <<plist, apCalls, apList, apFresh, dials, dialFails, failsLeft, connVars,
                   lifeVars, notSwarm>>

\* onNewPeer: if t.HasIBConn(a) { c.Close(); return }
onNewPeer(t) ==
    /\ t \in Running("inbound", "hasIB")
    /\ tasks' = Goto(t, IF HasIBConn(t.addr) THEN "done" ELSE "add")
    /\ UNCHANGED <<plist, spawned, apCalls, apList, apFresh, dials, dialFails, failsLeft,
                   connVars, lifeVars, notSwarm>>

\* onNewPeer: t.addIBPeer(c)
addIBPeer(t) ==
    /\ t \in Running("inbound", "add")
    /\ conns' = Append(conns, PeerConn(t.addr, TRUE))
    /\ ibconns' = MapPut(ibconns, t.addr, Len(conns) + 1)
    /\ tasks' = Replace(t, [t EXCEPT !.conn = Len(conns) + 1, !.pc = "start"])
    /\ UNCHANGED <<obconns, plist, spawned, apCalls, apList, apFresh, dials,
                   dialFails, failsLeft, lifeVars, notSwarm>>

\* a started connection ends (closed by us or by the remote) and takes its
\* address out of its map: removeIBConn / removeOBConn
Disconnect(c) ==
    /\ conns[c].started /\ ~conns[c].gone
    /\ conns' = [conns EXCEPT ![c].gone = TRUE]
    /\ IF conns[c].inbound
       THEN ibconns' = MapDel(ibconns, conns[c].addr) /\ obconns' = obconns
       ELSE obconns' = MapDel(obconns, conns[c].addr) /\ ibconns' = ibconns
    /\ UNCHANGED <<taskVars, lifeVars, notSwarm>>

MaxQueue == 2

\* broadcastHave(idx): VisitPeers collects the connections of both maps, then
\* conn.Send(NewHave(idx)) to each
broadcastHave ==
    /\ \A c \in VisitPeers : Len(conns[c].out) < MaxQueue
    /\ conns' = [c \in DOMAIN conns |->
                    IF c \in VisitPeers
                    THEN [conns[c] EXCEPT !.out = Append(@, "have")]
                    ELSE conns[c]]
    /\ UNCHANGED <<ibconns, obconns, taskVars, lifeVars, notSwarm>>

\* peer admission beside the broadcasts of newly stored pieces
HaveNext ==
    \/ \E peers \in PeerLists : addPeersCall(peers)
    \/ addPeers
    \/ \E t \in BagToSet(tasks) : PersistLoop(t)
    \/ \E t \in BagToSet(tasks) : PersistHasIB(t)
    \/ \E t \in BagToSet(tasks) : PersistHasOB(t)
    \/ \E t \in BagToSet(tasks) : DialPeer(t)
    \/ \E t \in BagToSet(tasks), ok \in BOOLEAN : Dial(t, ok)
    \/ \E t \in BagToSet(tasks), hs \in {"error", "mismatch", "match"} : Handshake(t, hs)
    \/ \E t \in BagToSet(tasks) : StartConn(t)
    \/ \E a \in Remotes : InboundArrives(a)
    \/ \E t \in BagToSet(tasks) : onNewPeer(t)
    \/ \E t \in BagToSet(tasks) : addIBPeer(t)
    \/ \E c \in DOMAIN conns : Disconnect(c)
    \/ broadcastHave

(***************************************************************************)
(* One PersistPeer(a) call from its first line to its return, on a network *)
(* that may let up to MaxPersistFails dials or handshakes fail, beside      *)
(* inbound connections from the same and other addresses.                  *)
(***************************************************************************)
MaxPersistFails == 11

PersistNext ==
    \/ \E t \in BagToSet(tasks) : PersistLoop(t)
    \/ \E t \in BagToSet(tasks) : PersistHasIB(t)
    \/ \E t \in BagToSet(tasks) : PersistHasOB(t)
    \/ \E t \in BagToSet(tasks) : DialPeer(t)
    \/ \E t \in BagToSet(tasks), ok \in BOOLEAN : Dial(t, ok)
    \/ \E t \in BagToSet(tasks), hs \in {"error", "mismatch", "match"} : Handshake(t, hs)
    \/ \E t \in BagToSet(tasks) : StartConn(t)
    \/ \E a \in Remotes : InboundArrives(a)
    \/ \E t \in BagToSet(tasks) : onNewPeer(t)
    \/ \E t \in BagToSet(tasks) : addIBPeer(t)
    \/ \E c \in DOMAIN conns : Disconnect(c)

(***************************************************************************)
(* Torrent: announcing and Stop                                            *)
(***************************************************************************)
Ev(e, name) == [e |-> e, name |-> name]

\* StartAnnouncing: an entry and an announce task per tracker, and the ticker;
\* done is what t.Done() answers
StartAnnouncing(done) ==
    /\ ~ticker /\ announcers = {}
    /\ announcers' = Trackers
    /\ pendingAnn' = {Ev(IF done THEN "completed" ELSE "started", name) : name \in Trackers}
    /\ ticker' = TRUE
    /\ UNCHANGED <<closing, started, stopPc, stopLeft, events, peersAtFlush,
                   connVars, taskVars, notSwarm>>

\* a task spawned by StartAnnouncing: t.announce(name, ev)
announce(x) ==
    /\ x \in pendingAnn
    /\ pendingAnn' = pendingAnn \ {x}
    /\ events' = IF x.name \in announcers THEN Append(events, x) ELSE events
    /\ UNCHANGED <<closing, started, stopPc, stopLeft, announcers, ticker,
                   peersAtFlush, connVars, taskVars, notSwarm>>

\* Stop: if t.closing { return ErrAlreadyStopped }; Close: closing = true
Stop ==
    /\ stopPc \in {"idle", "done"}
    /\ IF closing
       THEN /\ stopPc' = "refused"
            /\ UNCHANGED <<closing, started, events>>
       ELSE /\ closing' = TRUE
            /\ started' = FALSE
            /\ stopPc' = "visit"
            /\ events' = Append(events, Ev("closing", ""))
    /\ UNCHANGED <<stopLeft, announcers, ticker, pendingAnn, peersAtFlush,
                   connVars, taskVars, notSwarm>>

\* Close: t.VisitPeers(func(c) { c.Close() })
ClosePeers ==
    /\ stopPc = "visit"
    /\ conns' = [c \in DOMAIN conns |->
                    IF c \in VisitPeers THEN [conns[c] EXCEPT !.closed = TRUE]
                    ELSE conns[c]]
    /\ stopPc' = "wait"
    /\ events' = Append(events, Ev("closePeers", ""))
    /\ UNCHANGED <<ibconns, obconns, closing, started, stopLeft, announcers,
                   ticker, pendingAnn, peersAtFlush, taskVars, notSwarm>>

\* Close: for t.NumPeers() > 0 { Sleep }
WaitPeers ==
    /\ stopPc = "wait"
    /\ NumPeers = 0
    /\ stopPc' = "flush"
    /\ events' = Append(events, Ev("waitDone", ""))
    /\ UNCHANGED <<closing, started, stopLeft, announcers, ticker, pendingAnn,
                   peersAtFlush, connVars, taskVars, notSwarm>>

\* Close: return t.st.Flush()
FlushStore ==
    /\ stopPc = "flush"
    /\ stopPc' = "ticker"
    /\ peersAtFlush' = NumPeers
    /\ events' = Append(events, Ev("flush", ""))
    /\ UNCHANGED <<closing, started, stopLeft, announcers, ticker, pendingAnn,
                   connVars, taskVars, notSwarm>>

\* StopAnnouncing: stop the ticker
StopTicker ==
    /\ stopPc = "ticker"
    /\ ticker' = FALSE
    /\ stopPc' = "announce"
    /\ stopLeft' = Trackers
    /\ events' = Append(events, Ev("tickerStop", ""))
    /\ UNCHANGED <<closing, started, announcers, pendingAnn, peersAtFlush,
                   connVars, taskVars, notSwarm>>

\* StopAnnouncing: t.announce(name, tracker.Stopped), in the map's order
StopAnnounce(name) ==
    /\ stopPc = "announce"
    /\ name \in stopLeft
    /\ stopLeft' = stopLeft \ {name}
    /\ events' = IF name \in announcers
                 THEN Append(events, Ev("stopped", name)) ELSE events
    /\ stopPc' = IF stopLeft = {name} THEN "done" ELSE "announce"
    /\ UNCHANGED <<closing, started, announcers, ticker, pendingAnn,
                   peersAtFlush, connVars, taskVars, notSwarm>>

SwarmNext ==
    \/ \E peers \in PeerLists : addPeersCall(peers)
    \/ addPeers
    \/ \E t \in BagToSet(tasks) : PersistLoop(t)
    \/ \E t \in BagToSet(tasks) : PersistHasIB(t)
    \/ \E t \in BagToSet(tasks) : PersistHasOB(t)
    \/ \E t \in BagToSet(tasks) : DialPeer(t)
    \/ \E t \in BagToSet(tasks), ok \in BOOLEAN : Dial(t, ok)
    \/ \E t \in BagToSet(tasks), hs \in {"error", "mismatch", "match"} : Handshake(t, hs)
    \/ \E t \in BagToSet(tasks) : StartConn(t)
    \/ \E a \in Remotes : InboundArrives(a)
    \/ \E t \in BagToSet(tasks) : onNewPeer(t)
    \/ \E t \in BagToSet(tasks) : addIBPeer(t)
    \/ \E c \in DOMAIN conns : Disconnect(c)
    \/ Stop
    \/ ClosePeers
    \/ WaitPeers
    \/ FlushStore
    \/ StopTicker
    \/ \E name \in Trackers : StopAnnounce(name)

\* Stop, with the announce tasks and the inbound peers that run beside it
StopNext ==
    \/ \E done \in BOOLEAN : StartAnnouncing(done)
    \/ \E x \in pendingAnn : announce(x)
    \/ \E a \in Remotes : InboundArrives(a)
    \/ \E t \in BagToSet(tasks) : onNewPeer(t)
    \/ \E t \in BagToSet(tasks) : addIBPeer(t)
    \/ \E t \in BagToSet(tasks) : StartConn(t)
    \/ \E c \in DOMAIN conns : Disconnect(c)
    \/ Stop
    \/ ClosePeers
    \/ WaitPeers
    \/ FlushStore
    \/ StopTicker
    \/ \E name \in Trackers : StopAnnounce(name)

(***************************************************************************)
(* Torrent: the lifecycle calls Start, Stop, Remove, Delete and GetStatus,  *)
(* each taken as a whole, on a torrent with no peer connected (Close's wait *)
(* for NumPeers() = 0 ends at once) and no announcers entry (announce finds *)
(* a == nil and does nothing).                                             *)
(***************************************************************************)
MaxStarts == 2

\* the paths fsTorrent.Delete removes, in its order
DeleteOrder == <<"manifest", "bitfield", "content">>

\* the lifecycle state a call begins in
Lifecycle == IF closing THEN "stopped" ELSE IF started THEN "running" ELSE "new"

Returned(op, res, failAt) ==
    [op |-> op, res |-> res, from |-> Lifecycle, failAt |-> failAt]

\* Torrent.Close: what it leaves of closing, started and the paths, and what
\* it returns; flushOk is whether st.Flush() can write the bitfield file
CloseResult(flushOk) ==
    IF closing
    THEN [closing |-> closing, started |-> started, paths |-> paths, err |-> "nil"]
    ELSE [closing |-> TRUE, started |-> FALSE,
          paths |-> IF flushOk THEN paths \cup {"bitfield"} ELSE paths,
          err |-> IF flushOk THEN "nil" ELSE "flush"]

\* fsTorrent.Delete on the paths ps: RemoveAll of each path in turn, until
\* one fails; failAt is the step whose RemoveAll fails (0: none does)
RECURSIVE DeleteFrom(_, _, _)
DeleteFrom(ps, k, failAt) ==
    IF k > Len(DeleteOrder) THEN [paths |-> ps, err |-> "nil"]
    ELSE IF k = failAt THEN [paths |-> ps, err |-> DeleteOrder[k]]
    ELSE DeleteFrom(ps \ {DeleteOrder[k]}, k + 1, failAt)

\* fsTorrent.Delete that reports no error: the seeded fault that the Delete
\* property must detect
StoreDeleteIgnoresError(ps, failAt) == [DeleteFrom(ps, 1, failAt) EXCEPT !.err = "nil"]

StoreDelete(ps, failAt) == DeleteFrom(ps, 1, failAt)

\* Start: if t.started { return ErrAlreadyStarted }; closing = false; go run()
Start ==
    /\ runNew + runLoop + completedFired < MaxStarts
    /\ IF started
       THEN /\ call' = Returned("Start", "ErrAlreadyStarted", 0)
            /\ UNCHANGED <<closing, runNew>>
       ELSE /\ closing' = FALSE
            /\ runNew' = runNew + 1
            /\ call' = Returned("Start", "nil", 0)
    /\ UNCHANGED <<started, removed, paths, complete, status, runLoop,
                   completedFired, stopPc, stopLeft, announcers, ticker,
                   pendingAnn, events, peersAtFlush, connVars, taskVars, notTorrent>>

\* run: t.started = true, on the way into the for !t.Done() loop
runStarted ==
    /\ runNew > 0
    /\ runNew' = runNew - 1
    /\ runLoop' = runLoop + 1
    /\ started' = TRUE
    /\ UNCHANGED <<closing, removed, paths, call, complete, status,
                   completedFired, stopPc, stopLeft, announcers, ticker,
                   pendingAnn, events, peersAtFlush, connVars, taskVars, notTorrent>>

\* run: the loop sees Done() and leaves; go t.Completed()
runCompleted ==
    /\ runLoop > 0
    /\ complete
    /\ runLoop' = runLoop - 1
    /\ completedFired' = completedFired + 1
    /\ UNCHANGED <<closing, started, removed, paths, call, complete, status,
                   runNew, stopPc, stopLeft, announcers, ticker,
                   pendingAnn, events, peersAtFlush, connVars, taskVars, notTorrent>>

\* the last missing piece is stored: Bitfield().Completed() from now on
LastPieceStored ==
    /\ ~complete
    /\ complete' = TRUE
    /\ UNCHANGED <<removed, paths, call, status, runNew, runLoop,
                   completedFired, swarmVars, notTorrent>>

\* Stop: ErrAlreadyStopped if closing, else Close and StopAnnouncing
StopCall(flushOk) ==
    /\ IF closing
       THEN /\ call' = Returned("Stop", "ErrAlreadyStopped", 0)
            /\ UNCHANGED <<closing, started, paths, ticker>>
       ELSE LET c == CloseResult(flushOk)
            IN  /\ closing' = c.closing
                /\ started' = c.started
                /\ paths' = c.paths
                /\ ticker' = FALSE
                /\ call' = Returned("Stop", c.err, 0)
    /\ UNCHANGED <<removed, complete, status, runNew, runLoop, completedFired,
                   stopPc, stopLeft, announcers, pendingAnn, events,
                   peersAtFlush, connVars, taskVars, notTorrent>>

\* Remove: err := t.Stop(); if err != nil { return err }; t.RemoveSelf()
Remove(flushOk) ==
    /\ IF closing
       THEN /\ call' = Returned("Remove", "ErrAlreadyStopped", 0)
            /\ UNCHANGED <<closing, started, paths, ticker, removed>>
       ELSE LET c == CloseResult(flushOk)
            IN  /\ closing' = c.closing
                /\ started' = c.started
                /\ paths' = c.paths
                /\ ticker' = FALSE
                /\ removed' = IF c.err = "nil" THEN TRUE ELSE removed
                /\ call' = Returned("Remove", c.err, 0)
    /\ UNCHANGED <<complete, status, runNew, runLoop, completedFired,
                   stopPc, stopLeft, announcers, pendingAnn, events,
                   peersAtFlush, connVars, taskVars, notTorrent>>

\* Delete: Close; StopAnnouncing; err := t.st.Delete(); RemoveSelf if nil
Delete(flushOk, failAt) ==
    LET c == CloseResult(flushOk)
        d == StoreDelete(c.paths, failAt)
    IN  /\ closing' = c.closing
        /\ started' = c.started
        /\ ticker' = FALSE
        /\ paths' = d.paths
        /\ removed' = IF d.err = "nil" THEN TRUE ELSE removed
        /\ call' = Returned("Delete", d.err, failAt)
        /\ UNCHANGED <<complete, status, runNew, runLoop, completedFired,
                       stopPc, stopLeft, announcers, pendingAnn, events,
                       peersAtFlush, connVars, taskVars, notTorrent>>

\* GetStatus: state := Downloading; if t.Done() { state = Seeding }
GetStatus ==
    /\ status' = IF complete THEN "seeding" ELSE "downloading"
    /\ call' = Returned("GetStatus", "nil", 0)
    /\ UNCHANGED <<removed, paths, complete, runNew, runLoop, completedFired,
                   swarmVars, notTorrent>>

LifeNext ==
    \/ Start
    \/ runStarted
    \/ runCompleted
    \/ LastPieceStored
    \/ \E flushOk \in BOOLEAN : StopCall(flushOk)
    \/ \E flushOk \in BOOLEAN : Remove(flushOk)
    \/ \E flushOk \in BOOLEAN, failAt \in 0..Len(DeleteOrder) : Delete(flushOk, failAt)
    \/ GetStatus

(***************************************************************************)
(* Torrent: the periodic announces                                         *)
(***************************************************************************)
MaxEvents == 4

\* the orders in which a range over the map can meet the trackers of S
Orders(S) ==
    {f \in [1..Cardinality(S) -> S] : \A i, j \in DOMAIN f : i # j => f[i] # f[j]}

\* pollAnnounce, one tick of the ticker: ev is Nop, or Completed if t.Done();
\* due are the trackers for which shouldAnnounce answers true, met in order
pollAnnounce(due, order) ==
    /\ ticker
    /\ due \subseteq announcers
    /\ order \in Orders(due)
    /\ Len(events) + Len(order) <= MaxEvents
    /\ events' = events \o
          [i \in DOMAIN order |->
              Ev(IF complete THEN "completed" ELSE "nop", order[i])]
    \* nextAnnounceFor makes the entry of a tracker that has none
    /\ announcers' = Trackers
    /\ UNCHANGED <<closing, started, stopPc, stopLeft, ticker, pendingAnn,
                   peersAtFlush, connVars, taskVars, notSwarm>>

AnnounceNext ==
    \/ StartAnnouncing(complete)
    \/ \E x \in pendingAnn : announce(x)
    \/ \E due \in SUBSET Trackers : \E order \in Orders(due) : pollAnnounce(due, order)
    \/ LastPieceStored

(***************************************************************************)
(* Torrent: the network context.  LostNetwork, ObtainedNetwork and Network  *)
(* run concurrently; a step is one statement of theirs.  suspended and      *)
(* netContext are read and written without a lock.                         *)
(***************************************************************************)
MaxNetTasks == 4

Transports == {"n1", "n2"}

NetTask(kind, pc, arg) ==
    [kind |-> kind, pc |-> pc, arg |-> arg, atStart |-> FALSE, since |-> FALSE]

NetRunning(kind, pc) == {t \in BagToSet(netTasks) : t.kind = kind /\ t.pc = pc}

NetReplace(t, t2) == (netTasks (-) SetToBag({t})) (+) SetToBag({t2})

NetGoto(t, pc) ==
    IF pc = "done" THEN netTasks (-) SetToBag({t})
    ELSE NetReplace(t, [t EXCEPT !.pc = pc])

\* a LostNetwork or ObtainedNetwork call is at work
NetworkChanging == \E t \in BagToSet(netTasks) : t.kind \in {"lost", "obtained"}

\* LostNetwork is called: if t.suspended { return }
LostNetwork ==
    /\ ~netFault
    /\ netSpawned < MaxNetTasks
    /\ netSpawned' = netSpawned + 1
    /\ netTasks' = IF suspended THEN netTasks
                   ELSE netTasks (+) SetToBag({NetTask("lost", "lock", "nil")})
    /\ UNCHANGED <<netContext, suspended, netacces, netReturns, netFault, notNet>>
    /\ lastChange' = "lost"

\* LostNetwork: t.netacces.Lock()
LostLock(t) ==
    /\ ~netFault
    /\ t \in NetRunning("lost", "lock")
    /\ netacces = "free"
    /\ netacces' = "held"
    /\ netTasks' = NetGoto(t, "suspend")
    /\ UNCHANGED <<netContext, suspended, netSpawned, netReturns, netFault, notNet>>
    /\ UNCHANGED lastChange

\* LostNetwork: t.suspended = true
LostSuspend(t) ==
    /\ ~netFault
    /\ t \in NetRunning("lost", "suspend")
    /\ suspended' = TRUE
    /\ netTasks' = NetGoto(t, "clear")
    /\ UNCHANGED <<netContext, netacces, netSpawned, netReturns, netFault, notNet>>
    /\ UNCHANGED lastChange

\* LostNetwork: t.netContext = nil, and return with netacces held
LostClear(t) ==
    /\ ~netFault
    /\ t \in NetRunning("lost", "clear")
    /\ netContext' = "nil"
    /\ netTasks' = NetGoto(t, "done")
    /\ UNCHANGED <<suspended, netacces, netSpawned, netReturns, netFault, notNet>>
    /\ UNCHANGED lastChange

\* ObtainedNetwork(n) is called: t.netContext = n
ObtainedNetwork(n) ==
    /\ ~netFault
    /\ netSpawned < MaxNetTasks
    /\ netSpawned' = netSpawned + 1
    /\ netContext' = n
    \* the Network calls at work have now seen an ObtainedNetwork call
    /\ netTasks' =
          LET seen(t) == IF t.kind = "network" THEN [t EXCEPT !.since = TRUE] ELSE t
              old == BagToSet(netTasks)
              new == {seen(t) : t \in old}
          IN  [t2 \in new |->
                  LET src == {t \in old : seen(t) = t2}
                      Sum[S \in SUBSET src] ==
                          IF S = {} THEN 0
                          ELSE LET x == CHOOSE x \in S : TRUE
                               IN  netTasks[x] + Sum[S \ {x}]
                  IN  Sum[src]]
             (+) SetToBag({NetTask("obtained", "check", n)})
    /\ UNCHANGED <<suspended, netacces, netReturns, netFault, notNet>>
    /\ lastChange' = n

\* ObtainedNetwork: if t.suspended
ObtainedCheck(t) ==
    /\ ~netFault
    /\ t \in NetRunning("obtained", "check")
    /\ netTasks' = NetGoto(t, IF suspended THEN "resume" ELSE "done")
    /\ UNCHANGED <<netContext, suspended, netacces, netSpawned, netReturns,
                   netFault, notNet>>
    /\ UNCHANGED lastChange

\* ObtainedNetwork: t.suspended = false
ObtainedResume(t) ==
    /\ ~netFault
    /\ t \in NetRunning("obtained", "resume")
    /\ suspended' = FALSE
    /\ netTasks' = NetGoto(t, "unlock")
    /\ UNCHANGED <<netContext, netacces, netSpawned, netReturns, netFault, notNet>>
    /\ UNCHANGED lastChange

\* ObtainedNetwork: t.netacces.Unlock(); unlocking a free mutex is fatal
ObtainedUnlock(t) ==
    /\ ~netFault
    /\ t \in NetRunning("obtained", "unlock")
    /\ netacces' = "free"
    /\ netFault' = (netacces = "free")
    /\ netTasks' = NetGoto(t, "done")
    /\ UNCHANGED <<netContext, suspended, netSpawned, netReturns, notNet>>
    /\ UNCHANGED lastChange

\* Network() is called; atStart: the torrent is suspended and neither a
\* LostNetwork nor an ObtainedNetwork call is at work
Network ==
    /\ ~netFault
    /\ netSpawned < MaxNetTasks
    /\ netSpawned' = netSpawned + 1
    /\ netTasks' = netTasks (+) SetToBag({[NetTask("network", "wait", "nil")
                        EXCEPT !.atStart = suspended /\ ~NetworkChanging]})
    /\ UNCHANGED <<netContext, suspended, netacces, netReturns, netFault, notNet>>
    /\ UNCHANGED lastChange

\* Network: for t.suspended { time.Sleep(time.Millisecond) }
NetworkWait(t) ==
    /\ ~netFault
    /\ t \in NetRunning("network", "wait")
    /\ ~suspended
    /\ netTasks' = NetGoto(t, "lock")
    /\ UNCHANGED <<netContext, suspended, netacces, netSpawned, netReturns,
                   netFault, notNet>>
    /\ UNCHANGED lastChange

\* Network: t.netacces.Lock()
NetworkLock(t) ==
    /\ ~netFault
    /\ t \in NetRunning("network", "lock")
    /\ netacces = "free"
    /\ netacces' = "held"
    /\ netTasks' = NetGoto(t, "read")
    /\ UNCHANGED <<netContext, suspended, netSpawned, netReturns, netFault, notNet>>
    /\ UNCHANGED lastChange

\* Network: n = t.netContext
NetworkRead(t) ==
    /\ ~netFault
    /\ t \in NetRunning("network", "read")
    /\ netTasks' = NetReplace(t, [t EXCEPT !.arg = netContext, !.pc = "unlock"])
    /\ UNCHANGED <<netContext, suspended, netacces, netSpawned, netReturns,
                   netFault, notNet>>
    /\ UNCHANGED lastChange

\* Network: t.netacces.Unlock(); return
NetworkUnlock(t) ==
    /\ ~netFault
    /\ t \in NetRunning("network", "unlock")
    /\ netacces' = "free"
    /\ netFault' = (netacces = "free")
    /\ netReturns' = netReturns \cup
          {[atStart |-> t.atStart, since |-> t.since, n |-> t.arg]}
    /\ netTasks' = NetGoto(t, "done")
    /\ UNCHANGED <<netContext, suspended, netSpawned, notNet>>
    /\ UNCHANGED lastChange

NetNext ==
    \/ LostNetwork
    \/ \E t \in BagToSet(netTasks) : LostLock(t)
    \/ \E t \in BagToSet(netTasks) : LostSuspend(t)
    \/ \E t \in BagToSet(netTasks) : LostClear(t)
    \/ \E n \in Transports : ObtainedNetwork(n)
    \/ \E t \in BagToSet(netTasks) : ObtainedCheck(t)
    \/ \E t \in BagToSet(netTasks) : ObtainedResume(t)
    \/ \E t \in BagToSet(netTasks) : ObtainedUnlock(t)
    \/ Network
    \/ \E t \in BagToSet(netTasks) : NetworkWait(t)
    \/ \E t \in BagToSet(netTasks) : NetworkLock(t)
    \/ \E t \in BagToSet(netTasks) : NetworkRead(t)
    \/ \E t \in BagToSet(netTasks) : NetworkUnlock(t)

(***************************************************************************)
(* FsStorage: the download directory as a drop zone                        *)
(***************************************************************************)
MaxPolls == 2

Hashes == {"h1", "h2"}

\* FsStorage.HasBitfield
HasBitfield(ih) == ih \in bitfieldFiles

\* PollNewTorrents: every *.torrent file of the download directory is decoded;
\* one that does not decode, or whose infohash has a bitfield file, is passed
\* over; the others go to OpenTorrent, which fails for those in openFail
PollNewTorrents(openFail) ==
    /\ polls < MaxPolls
    /\ polls' = polls + 1
    /\ LET torrents == {ih \in dropZone : ~HasBitfield(ih) /\ ih \notin openFail}
       IN  /\ polled' = torrents
           /\ opened' = opened \cup torrents
           /\ adoptions' = [ih \in Hashes |->
                               IF ih \in torrents THEN adoptions[ih] + 1
                               ELSE adoptions[ih]]
    /\ UNCHANGED <<dropZone, badFiles, bitfieldFiles, notPoll>>

\* Bitfield() is called on a torrent a poll has returned: CreateNewBitfield
\* unless the file is there
PolledBitfield(ih) ==
    /\ ih \in opened
    /\ bitfieldFiles' = bitfieldFiles \cup {ih}
    /\ UNCHANGED <<dropZone, badFiles, opened, adoptions, polled, polls, notPoll>>

PollNext ==
    \/ \E openFail \in SUBSET dropZone : PollNewTorrents(openFail)
    \/ \E ih \in Hashes : PolledBitfield(ih)

(***************************************************************************)
(* Specifications                                                          *)
(***************************************************************************)
NoManifest == Manifest(0, <<>>, 1, <<>>)

InitCodec ==
    /\ cmsg \in CodecInputs /\ cwire = <<>> /\ cout = NoMsg
    /\ input = <<>> /\ pos = 1 /\ data = <<0, 0, 0, 0>>
    /\ rerr = "nil" /\ rstate = "idle" /\ handled = <<>> /\ drained = <<>>
    /\ meta = NoManifest /\ disk = <<>> /\ bf = NilBitfield /\ diskBf = NoFile
    /\ lastOp = Op("none", 0, "nil")
    /\ wbuf = <<>> /\ woff = 0 /\ rres = Unread
    /\ ibconns = <<>> /\ obconns = <<>> /\ conns = <<>>
    /\ closing = FALSE /\ started = FALSE
    /\ tasks = EmptyBag /\ spawned = 0 /\ plist = <<>> /\ apCalls = 0
    /\ apList = <<>>
    /\ apFresh = {} /\ dials = <<>> /\ dialFails = {}
    /\ stopPc = "idle" /\ stopLeft = {} /\ announcers = {} /\ ticker = FALSE
    /\ pendingAnn = {} /\ events = <<>> /\ peersAtFlush = 0
    /\ removed = FALSE
    /\ paths = {}
    /\ call = [op |-> "none", res |-> "nil", from |-> "new", failAt |-> 0]
    /\ complete = FALSE
    /\ status = "none"
    /\ runNew = 0
    /\ runLoop = 0
    /\ completedFired = 0
    /\ netContext = "nil"
    /\ suspended = FALSE
    /\ netacces = "free"
    /\ netTasks = EmptyBag
    /\ netSpawned = 0
    /\ netReturns = {}
    /\ netFault = FALSE
    /\ dropZone = {}
    /\ badFiles = 0
    /\ bitfieldFiles = {}
    /\ opened = {}
    /\ adoptions = EmptyMap
    /\ polled = {}
    /\ polls = 0
    /\ left = 0
    /\ faults = 0
    /\ desync = FALSE
    /\ failed = -1
    /\ bfmtx = "free"
    /\ stTasks = EmptyBag
    /\ stSpawned = 0
    /\ writers = 0
    /\ maxWriters = 0
    /\ setInFlush = FALSE
    /\ failsLeft = 0
    /\ manifests = <<>>
    /\ infohashes = <<>>
    /\ lastChange = "none"
    /\ remaining = <<0, 0, 0, 0>>

SpecCodec == InitCodec /\ [][Serialize \/ Parse]_vars

\* two manifests are loaded, with any info dictionaries
InitHash ==
    /\ cmsg = NoMsg /\ cwire = <<>> /\ cout = NoMsg
    /\ input = <<>> /\ pos = 1 /\ data = <<0, 0, 0, 0>>
    /\ rerr = "nil" /\ rstate = "idle" /\ handled = <<>> /\ drained = <<>>
    /\ meta = NoManifest /\ disk = <<>> /\ bf = NilBitfield /\ diskBf = NoFile
    /\ lastOp = Op("none", 0, "nil")
    /\ wbuf = <<>> /\ woff = 0 /\ rres = Unread
    /\ ibconns = <<>> /\ obconns = <<>> /\ conns = <<>>
    /\ closing = FALSE /\ started = FALSE
    /\ tasks = EmptyBag /\ spawned = 0 /\ plist = <<>> /\ apCalls = 0
    /\ apList = <<>>
    /\ apFresh = {} /\ dials = <<>> /\ dialFails = {}
    /\ stopPc = "idle" /\ stopLeft = {} /\ announcers = {} /\ ticker = FALSE
    /\ pendingAnn = {} /\ events = <<>> /\ peersAtFlush = 0
    /\ removed = FALSE
    /\ paths = {}
    /\ call = [op |-> "none", res |-> "nil", from |-> "new", failAt |-> 0]
    /\ complete = FALSE
    /\ status = "none"
    /\ runNew = 0
    /\ runLoop = 0
    /\ completedFired = 0
    /\ netContext = "nil"
    /\ suspended = FALSE
    /\ netacces = "free"
    /\ netTasks = EmptyBag
    /\ netSpawned = 0
    /\ netReturns = {}
    /\ netFault = FALSE
    /\ dropZone = {}
    /\ badFiles = 0
    /\ bitfieldFiles = {}
    /\ opened = {}
    /\ adoptions = EmptyMap
    /\ polled = {}
    /\ polls = 0
    /\ left = 0
    /\ faults = 0
    /\ desync = FALSE
    /\ failed = -1
    /\ bfmtx = "free"
    /\ stTasks = EmptyBag
    /\ stSpawned = 0
    /\ writers = 0
    /\ maxWriters = 0
    /\ setInFlush = FALSE
    /\ failsLeft = 0
    /\ manifests \in [{"A", "B"} -> Infos]
    /\ infohashes = [x \in {"A", "B"} |-> NoHash]
    /\ lastChange = "none"
    /\ remaining = <<0, 0, 0, 0>>

SpecHash == InitHash /\ [][HashNext]_vars

\* ReadWireMessages is called on a reader holding any stream of intact frames
InitWire ==
    /\ input \in FrameStreams /\ pos = 1 /\ data = <<0, 0, 0, 0>>
    /\ rerr = "nil" /\ rstate = "running" /\ handled = <<>> /\ drained = <<>>
    /\ cmsg = NoMsg /\ cwire = <<>> /\ cout = NoMsg
    /\ meta = NoManifest /\ disk = <<>> /\ bf = NilBitfield /\ diskBf = NoFile
    /\ lastOp = Op("none", 0, "nil")
    /\ wbuf = <<>> /\ woff = 0 /\ rres = Unread
    /\ ibconns = <<>> /\ obconns = <<>> /\ conns = <<>>
    /\ closing = FALSE /\ started = FALSE
    /\ tasks = EmptyBag /\ spawned = 0 /\ plist = <<>> /\ apCalls = 0
    /\ apList = <<>>
    /\ apFresh = {} /\ dials = <<>> /\ dialFails = {}
    /\ stopPc = "idle" /\ stopLeft = {} /\ announcers = {} /\ ticker = FALSE
    /\ pendingAnn = {} /\ events = <<>> /\ peersAtFlush = 0
    /\ removed = FALSE
    /\ paths = {}
    /\ call = [op |-> "none", res |-> "nil", from |-> "new", failAt |-> 0]
    /\ complete = FALSE
    /\ status = "none"
    /\ runNew = 0
    /\ runLoop = 0
    /\ completedFired = 0
    /\ netContext = "nil"
    /\ suspended = FALSE
    /\ netacces = "free"
    /\ netTasks = EmptyBag
    /\ netSpawned = 0
    /\ netReturns = {}
    /\ netFault = FALSE
    /\ dropZone = {}
    /\ badFiles = 0
    /\ bitfieldFiles = {}
    /\ opened = {}
    /\ adoptions = EmptyMap
    /\ polled = {}
    /\ polls = 0
    /\ left = 0
    /\ faults = 0
    /\ desync = FALSE
    /\ failed = -1
    /\ bfmtx = "free"
    /\ stTasks = EmptyBag
    /\ stSpawned = 0
    /\ writers = 0
    /\ maxWriters = 0
    /\ setInFlush = FALSE
    /\ failsLeft = 0
    /\ manifests = <<>>
    /\ infohashes = <<>>
    /\ lastChange = "none"
    /\ remaining = <<0, 0, 0, 0>>

SpecWire == InitWire /\ [][ReadWireMessages]_vars

\* ReadWireMessages is called on a reader that may end early or time out
InitWireFailing ==
    /\ input \in FrameStreams /\ pos = 1 /\ data = <<0, 0, 0, 0>>
    /\ rerr = "nil" /\ rstate = "running" /\ handled = <<>> /\ drained = <<>>
    /\ cmsg = NoMsg /\ cwire = <<>> /\ cout = NoMsg
    /\ meta = NoManifest /\ disk = <<>> /\ bf = NilBitfield /\ diskBf = NoFile
    /\ lastOp = Op("none", 0, "nil")
    /\ wbuf = <<>> /\ woff = 0 /\ rres = Unread
    /\ ibconns = <<>> /\ obconns = <<>> /\ conns = <<>>
    /\ closing = FALSE /\ started = FALSE
    /\ tasks = EmptyBag /\ spawned = 0 /\ plist = <<>> /\ apCalls = 0
    /\ apList = <<>>
    /\ apFresh = {} /\ dials = <<>> /\ dialFails = {}
    /\ stopPc = "idle" /\ stopLeft = {} /\ announcers = {} /\ ticker = FALSE
    /\ pendingAnn = {} /\ events = <<>> /\ peersAtFlush = 0
    /\ removed = FALSE
    /\ paths = {}
    /\ call = [op |-> "none", res |-> "nil", from |-> "new", failAt |-> 0]
    /\ complete = FALSE
    /\ status = "none"
    /\ runNew = 0
    /\ runLoop = 0
    /\ completedFired = 0
    /\ netContext = "nil"
    /\ suspended = FALSE
    /\ netacces = "free"
    /\ netTasks = EmptyBag
    /\ netSpawned = 0
    /\ netReturns = {}
    /\ netFault = FALSE
    /\ dropZone = {}
    /\ badFiles = 0
    /\ bitfieldFiles = {}
    /\ opened = {}
    /\ adoptions = EmptyMap
    /\ polled = {}
    /\ polls = 0
    /\ left \in Cuts(input)
    /\ faults = 0
    /\ desync = FALSE
    /\ failed = -1
    /\ bfmtx = "free"
    /\ stTasks = EmptyBag
    /\ stSpawned = 0
    /\ writers = 0
    /\ maxWriters = 0
    /\ setInFlush = FALSE
    /\ failsLeft = 0
    /\ manifests = <<>>
    /\ infohashes = <<>>
    /\ lastChange = "none"
    /\ remaining = <<0, 0, 0, 0>>

SpecWireFailing == InitWireFailing /\ [][ReadWireMessagesFailing]_vars

InitStore ==
    /\ meta \in StoreManifests
    /\ disk \in AllDisks(meta)
    /\ bf = NilBitfield
    /\ diskBf \in {NoFile} \cup SUBSET Inverted(NumPieces(meta))
    /\ lastOp = Op("OpenTorrent", 0, "nil")
    /\ wbuf = <<>> /\ woff = 0 /\ rres = Unread
    /\ input = <<>> /\ pos = 1 /\ data = <<0, 0, 0, 0>>
    /\ rerr = "nil" /\ rstate = "idle" /\ handled = <<>> /\ drained = <<>>
    /\ cmsg = NoMsg /\ cwire = <<>> /\ cout = NoMsg
    /\ ibconns = <<>> /\ obconns = <<>> /\ conns = <<>>
    /\ closing = FALSE /\ started = FALSE
    /\ tasks = EmptyBag /\ spawned = 0 /\ plist = <<>> /\ apCalls = 0
    /\ apList = <<>>
    /\ apFresh = {} /\ dials = <<>> /\ dialFails = {}
    /\ stopPc = "idle" /\ stopLeft = {} /\ announcers = {} /\ ticker = FALSE
    /\ pendingAnn = {} /\ events = <<>> /\ peersAtFlush = 0
    /\ removed = FALSE
    /\ paths = {}
    /\ call = [op |-> "none", res |-> "nil", from |-> "new", failAt |-> 0]
    /\ complete = FALSE
    /\ status = "none"
    /\ runNew = 0
    /\ runLoop = 0
    /\ completedFired = 0
    /\ netContext = "nil"
    /\ suspended = FALSE
    /\ netacces = "free"
    /\ netTasks = EmptyBag
    /\ netSpawned = 0
    /\ netReturns = {}
    /\ netFault = FALSE
    /\ dropZone = {}
    /\ badFiles = 0
    /\ bitfieldFiles = {}
    /\ opened = {}
    /\ adoptions = EmptyMap
    /\ polled = {}
    /\ polls = 0
    /\ left = 0
    /\ faults = 0
    /\ desync = FALSE
    /\ failed = -1
    /\ bfmtx = "free"
    /\ stTasks = EmptyBag
    /\ stSpawned = 0
    /\ writers = 0
    /\ maxWriters = 0
    /\ setInFlush = FALSE
    /\ failsLeft = 0
    /\ manifests = <<>>
    /\ infohashes = <<>>
    /\ lastChange = "none"
    /\ remaining = <<0, 0, 0, 0>>

SpecStore == InitStore /\ [][StoreNext]_vars

\* the torrent has just been opened, as for the store specification
InitFlush ==
    /\ meta \in StoreManifests
    /\ disk \in AllDisks(meta)
    /\ bf = NilBitfield
    /\ diskBf \in {NoFile} \cup SUBSET Inverted(NumPieces(meta))
    /\ lastOp = Op("OpenTorrent", 0, "nil")
    /\ wbuf = <<>> /\ woff = 0 /\ rres = Unread
    /\ input = <<>> /\ pos = 1 /\ data = <<0, 0, 0, 0>>
    /\ rerr = "nil" /\ rstate = "idle" /\ handled = <<>> /\ drained = <<>>
    /\ cmsg = NoMsg /\ cwire = <<>> /\ cout = NoMsg
    /\ ibconns = <<>> /\ obconns = <<>> /\ conns = <<>>
    /\ closing = FALSE /\ started = FALSE
    /\ tasks = EmptyBag /\ spawned = 0 /\ plist = <<>> /\ apCalls = 0
    /\ apList = <<>>
    /\ apFresh = {} /\ dials = <<>> /\ dialFails = {}
    /\ stopPc = "idle" /\ stopLeft = {} /\ announcers = {} /\ ticker = FALSE
    /\ pendingAnn = {} /\ events = <<>> /\ peersAtFlush = 0
    /\ removed = FALSE
    /\ paths = {}
    /\ call = [op |-> "none", res |-> "nil", from |-> "new", failAt |-> 0]
    /\ complete = FALSE
    /\ status = "none"
    /\ runNew = 0
    /\ runLoop = 0
    /\ completedFired = 0
    /\ netContext = "nil"
    /\ suspended = FALSE
    /\ netacces = "free"
    /\ netTasks = EmptyBag
    /\ netSpawned = 0
    /\ netReturns = {}
    /\ netFault = FALSE
    /\ dropZone = {}
    /\ badFiles = 0
    /\ bitfieldFiles = {}
    /\ opened = {}
    /\ adoptions = EmptyMap
    /\ polled = {}
    /\ polls = 0
    /\ left = 0
    /\ faults = 0
    /\ desync = FALSE
    /\ failed = -1
    /\ bfmtx = "free"
    /\ stTasks = EmptyBag
    /\ stSpawned = 0
    /\ writers = 0
    /\ maxWriters = 0
    /\ setInFlush = FALSE
    /\ failsLeft = 0
    /\ manifests = <<>>
    /\ infohashes = <<>>
    /\ lastChange = "none"
    /\ remaining = <<0, 0, 0, 0>>

SpecFlush == InitFlush /\ [][FlushNext]_vars

\* Allocate has made every content file, zero-filled, at its length
InitRW ==
    /\ meta \in RWManifests
    /\ disk = [i \in 1..Len(GetFiles(meta)) |-> Zeros(GetFiles(meta)[i])]
    /\ bf = NilBitfield /\ diskBf = NoFile
    /\ lastOp = Op("OpenTorrent", 0, "nil")
    /\ wbuf = <<>> /\ woff = 0 /\ rres = Unread
    /\ input = <<>> /\ pos = 1 /\ data = <<0, 0, 0, 0>>
    /\ rerr = "nil" /\ rstate = "idle" /\ handled = <<>> /\ drained = <<>>
    /\ cmsg = NoMsg /\ cwire = <<>> /\ cout = NoMsg
    /\ ibconns = <<>> /\ obconns = <<>> /\ conns = <<>>
    /\ closing = FALSE /\ started = FALSE
    /\ tasks = EmptyBag /\ spawned = 0 /\ plist = <<>> /\ apCalls = 0
    /\ apList = <<>>
    /\ apFresh = {} /\ dials = <<>> /\ dialFails = {}
    /\ stopPc = "idle" /\ stopLeft = {} /\ announcers = {} /\ ticker = FALSE
    /\ pendingAnn = {} /\ events = <<>> /\ peersAtFlush = 0
    /\ removed = FALSE
    /\ paths = {}
    /\ call = [op |-> "none", res |-> "nil", from |-> "new", failAt |-> 0]
    /\ complete = FALSE
    /\ status = "none"
    /\ runNew = 0
    /\ runLoop = 0
    /\ completedFired = 0
    /\ netContext = "nil"
    /\ suspended = FALSE
    /\ netacces = "free"
    /\ netTasks = EmptyBag
    /\ netSpawned = 0
    /\ netReturns = {}
    /\ netFault = FALSE
    /\ dropZone = {}
    /\ badFiles = 0
    /\ bitfieldFiles = {}
    /\ opened = {}
    /\ adoptions = EmptyMap
    /\ polled = {}
    /\ polls = 0
    /\ left = 0
    /\ faults = 0
    /\ desync = FALSE
    /\ failed = -1
    /\ bfmtx = "free"
    /\ stTasks = EmptyBag
    /\ stSpawned = 0
    /\ writers = 0
    /\ maxWriters = 0
    /\ setInFlush = FALSE
    /\ failsLeft = 0
    /\ manifests = <<>>
    /\ infohashes = <<>>
    /\ lastChange = "none"
    /\ remaining = <<0, 0, 0, 0>>

SpecRW == InitRW /\ [][RWNext]_vars

\* newTorrent: empty maps, no task, nothing announced yet
InitSwarm ==
    /\ ibconns = EmptyMap /\ obconns = EmptyMap /\ conns = <<>>
    /\ closing = FALSE /\ started = FALSE
    /\ tasks = EmptyBag /\ spawned = 0 /\ plist = <<>> /\ apCalls = 0
    /\ apList = <<>>
    /\ apFresh = {} /\ dials = [a \in Remotes \cup {Self} |-> 0] /\ dialFails = {}
    /\ stopPc = "idle" /\ stopLeft = {} /\ announcers = {} /\ ticker = FALSE
    /\ pendingAnn = {} /\ events = <<>> /\ peersAtFlush = 0
    /\ meta = NoManifest /\ disk = <<>> /\ bf = NilBitfield /\ diskBf = NoFile
    /\ lastOp = Op("none", 0, "nil")
    /\ wbuf = <<>> /\ woff = 0 /\ rres = Unread
    /\ input = <<>> /\ pos = 1 /\ data = <<0, 0, 0, 0>>
    /\ rerr = "nil" /\ rstate = "idle" /\ handled = <<>> /\ drained = <<>>
    /\ cmsg = NoMsg /\ cwire = <<>> /\ cout = NoMsg
    /\ removed = FALSE
    /\ paths = {}
    /\ call = [op |-> "none", res |-> "nil", from |-> "new", failAt |-> 0]
    /\ complete = FALSE
    /\ status = "none"
    /\ runNew = 0
    /\ runLoop = 0
    /\ completedFired = 0
    /\ netContext = "nil"
    /\ suspended = FALSE
    /\ netacces = "free"
    /\ netTasks = EmptyBag
    /\ netSpawned = 0
    /\ netReturns = {}
    /\ netFault = FALSE
    /\ dropZone = {}
    /\ badFiles = 0
    /\ bitfieldFiles = {}
    /\ opened = {}
    /\ adoptions = EmptyMap
    /\ polled = {}
    /\ polls = 0
    /\ left = 0
    /\ faults = 0
    /\ desync = FALSE
    /\ failed = -1
    /\ bfmtx = "free"
    /\ stTasks = EmptyBag
    /\ stSpawned = 0
    /\ writers = 0
    /\ maxWriters = 0
    /\ setInFlush = FALSE
    /\ failsLeft = MaxDialFails
    /\ manifests = <<>>
    /\ infohashes = <<>>
    /\ lastChange = "none"
    /\ remaining = <<0, 0, 0, 0>>

SpecSwarm == InitSwarm /\ [][SwarmNext]_vars

\* the same with the scheduler's fairness for the steps of Close and of the
\* admission tasks, and with the assumption that a connection that was
\* closed eventually takes itself out of its map
SpecSwarmFair ==
    /\ SpecSwarm
    /\ WF_vars(ClosePeers) /\ WF_vars(WaitPeers) /\ WF_vars(FlushStore)
    /\ WF_vars(\E t \in BagToSet(tasks) : StartConn(t))
    /\ \A c \in 1..MaxTasks :
          WF_vars(c \in DOMAIN conns /\ conns[c].closed /\ Disconnect(c))

SpecStop == InitSwarm /\ [][StopNext]_vars

SpecHave == InitSwarm /\ [][HaveNext]_vars

\* PersistPeer("a") has just been started by addPeers
InitPersist ==
    /\ ibconns = EmptyMap /\ obconns = EmptyMap /\ conns = <<>>
    /\ closing = FALSE /\ started = FALSE
    /\ tasks = SetToBag({Task("persist", "a", "loop")}) /\ spawned = 1 /\ plist = <<>> /\ apCalls = 0
    /\ apList = <<>>
    /\ apFresh = {} /\ dials = [a \in Remotes \cup {Self} |-> 0] /\ dialFails = {}
    /\ stopPc = "idle" /\ stopLeft = {} /\ announcers = {} /\ ticker = FALSE
    /\ pendingAnn = {} /\ events = <<>> /\ peersAtFlush = 0
    /\ meta = NoManifest /\ disk = <<>> /\ bf = NilBitfield /\ diskBf = NoFile
    /\ lastOp = Op("none", 0, "nil")
    /\ wbuf = <<>> /\ woff = 0 /\ rres = Unread
    /\ input = <<>> /\ pos = 1 /\ data = <<0, 0, 0, 0>>
    /\ rerr = "nil" /\ rstate = "idle" /\ handled = <<>> /\ drained = <<>>
    /\ cmsg = NoMsg /\ cwire = <<>> /\ cout = NoMsg
    /\ removed = FALSE
    /\ paths = {}
    /\ call = [op |-> "none", res |-> "nil", from |-> "new", failAt |-> 0]
    /\ complete = FALSE
    /\ status = "none"
    /\ runNew = 0
    /\ runLoop = 0
    /\ completedFired = 0
    /\ netContext = "nil"
    /\ suspended = FALSE
    /\ netacces = "free"
    /\ netTasks = EmptyBag
    /\ netSpawned = 0
    /\ netReturns = {}
    /\ netFault = FALSE
    /\ dropZone = {}
    /\ badFiles = 0
    /\ bitfieldFiles = {}
    /\ opened = {}
    /\ adoptions = EmptyMap
    /\ polled = {}
    /\ polls = 0
    /\ left = 0
    /\ faults = 0
    /\ desync = FALSE
    /\ failed = -1
    /\ bfmtx = "free"
    /\ stTasks = EmptyBag
    /\ stSpawned = 0
    /\ writers = 0
    /\ maxWriters = 0
    /\ setInFlush = FALSE
    /\ failsLeft = MaxPersistFails
    /\ manifests = <<>>
    /\ infohashes = <<>>
    /\ lastChange = "none"
    /\ remaining = <<0, 0, 0, 0>>

SpecPersist == InitPersist /\ [][PersistNext]_vars

\* OpenTorrent has written the manifest and allocated the content; a bitfield
\* file is there if the torrent was opened before
InitLife ==
    /\ ibconns = EmptyMap /\ obconns = EmptyMap /\ conns = <<>>
    /\ closing = FALSE /\ started = FALSE
    /\ tasks = EmptyBag /\ spawned = 0 /\ plist = <<>> /\ apCalls = 0
    /\ apList = <<>>
    /\ apFresh = {} /\ dials = [a \in Remotes \cup {Self} |-> 0] /\ dialFails = {}
    /\ stopPc = "idle" /\ stopLeft = {} /\ announcers = {} /\ ticker \in BOOLEAN
    /\ pendingAnn = {} /\ events = <<>> /\ peersAtFlush = 0
    /\ meta = NoManifest /\ disk = <<>> /\ bf = NilBitfield /\ diskBf = NoFile
    /\ lastOp = Op("none", 0, "nil")
    /\ wbuf = <<>> /\ woff = 0 /\ rres = Unread
    /\ input = <<>> /\ pos = 1 /\ data = <<0, 0, 0, 0>>
    /\ rerr = "nil" /\ rstate = "idle" /\ handled = <<>> /\ drained = <<>>
    /\ cmsg = NoMsg /\ cwire = <<>> /\ cout = NoMsg
    /\ removed = FALSE
    /\ paths \in {{"manifest", "content"}, {"manifest", "content", "bitfield"}}
    /\ call = [op |-> "none", res |-> "nil", from |-> "new", failAt |-> 0]
    /\ complete \in BOOLEAN
    /\ status = "none"
    /\ runNew = 0
    /\ runLoop = 0
    /\ completedFired = 0
    /\ netContext = "nil"
    /\ suspended = FALSE
    /\ netacces = "free"
    /\ netTasks = EmptyBag
    /\ netSpawned = 0
    /\ netReturns = {}
    /\ netFault = FALSE
    /\ dropZone = {}
    /\ badFiles = 0
    /\ bitfieldFiles = {}
    /\ opened = {}
    /\ adoptions = EmptyMap
    /\ polled = {}
    /\ polls = 0
    /\ left = 0
    /\ faults = 0
    /\ desync = FALSE
    /\ failed = -1
    /\ bfmtx = "free"
    /\ stTasks = EmptyBag
    /\ stSpawned = 0
    /\ writers = 0
    /\ maxWriters = 0
    /\ setInFlush = FALSE
    /\ failsLeft = 0
    /\ manifests = <<>>
    /\ infohashes = <<>>
    /\ lastChange = "none"
    /\ remaining = <<0, 0, 0, 0>>

SpecLife == InitLife /\ [][LifeNext]_vars

\* the same with the scheduler's fairness: a run goroutine that can take a
\* step (set started, or leave its loop on Done()) eventually takes it
SpecLifeFair == SpecLife /\ WF_vars(runStarted) /\ WF_vars(runCompleted)

\* a torrent that announces, complete or not yet
InitAnnounce ==
    /\ ibconns = EmptyMap /\ obconns = EmptyMap /\ conns = <<>>
    /\ closing = FALSE /\ started = FALSE
    /\ tasks = EmptyBag /\ spawned = 0 /\ plist = <<>> /\ apCalls = 0
    /\ apList = <<>>
    /\ apFresh = {} /\ dials = [a \in Remotes \cup {Self} |-> 0] /\ dialFails = {}
    /\ stopPc = "idle" /\ stopLeft = {} /\ announcers = {} /\ ticker = FALSE
    /\ pendingAnn = {} /\ events = <<>> /\ peersAtFlush = 0
    /\ meta = NoManifest /\ disk = <<>> /\ bf = NilBitfield /\ diskBf = NoFile
    /\ lastOp = Op("none", 0, "nil")
    /\ wbuf = <<>> /\ woff = 0 /\ rres = Unread
    /\ input = <<>> /\ pos = 1 /\ data = <<0, 0, 0, 0>>
    /\ rerr = "nil" /\ rstate = "idle" /\ handled = <<>> /\ drained = <<>>
    /\ cmsg = NoMsg /\ cwire = <<>> /\ cout = NoMsg
    /\ removed = FALSE
    /\ paths = {}
    /\ call = [op |-> "none", res |-> "nil", from |-> "new", failAt |-> 0]
    /\ complete \in BOOLEAN
    /\ status = "none"
    /\ runNew = 0
    /\ runLoop = 0
    /\ completedFired = 0
    /\ netContext = "nil"
    /\ suspended = FALSE
    /\ netacces = "free"
    /\ netTasks = EmptyBag
    /\ netSpawned = 0
    /\ netReturns = {}
    /\ netFault = FALSE
    /\ dropZone = {}
    /\ badFiles = 0
    /\ bitfieldFiles = {}
    /\ opened = {}
    /\ adoptions = EmptyMap
    /\ polled = {}
    /\ polls = 0
    /\ left = 0
    /\ faults = 0
    /\ desync = FALSE
    /\ failed = -1
    /\ bfmtx = "free"
    /\ stTasks = EmptyBag
    /\ stSpawned = 0
    /\ writers = 0
    /\ maxWriters = 0
    /\ setInFlush = FALSE
    /\ failsLeft = 0
    /\ manifests = <<>>
    /\ infohashes = <<>>
    /\ lastChange = "none"
    /\ remaining = <<0, 0, 0, 0>>

SpecAnnounce == InitAnnounce /\ [][AnnounceNext]_vars

\* a torrent with a transport, or one that LostNetwork has left suspended
InitNet ==
    /\ \/ netContext \in Transports /\ suspended = FALSE /\ netacces = "free"
       \/ netContext = "nil" /\ suspended = TRUE /\ netacces = "held"
    /\ netTasks = EmptyBag /\ netSpawned = 0 /\ netReturns = {} /\ netFault = FALSE
    /\ ibconns = EmptyMap /\ obconns = EmptyMap /\ conns = <<>>
    /\ closing = FALSE /\ started = FALSE
    /\ tasks = EmptyBag /\ spawned = 0 /\ plist = <<>> /\ apCalls = 0
    /\ apList = <<>>
    /\ apFresh = {} /\ dials = [a \in Remotes \cup {Self} |-> 0] /\ dialFails = {}
    /\ stopPc = "idle" /\ stopLeft = {} /\ announcers = {} /\ ticker = FALSE
    /\ pendingAnn = {} /\ events = <<>> /\ peersAtFlush = 0
    /\ meta = NoManifest /\ disk = <<>> /\ bf = NilBitfield /\ diskBf = NoFile
    /\ lastOp = Op("none", 0, "nil")
    /\ wbuf = <<>> /\ woff = 0 /\ rres = Unread
    /\ input = <<>> /\ pos = 1 /\ data = <<0, 0, 0, 0>>
    /\ rerr = "nil" /\ rstate = "idle" /\ handled = <<>> /\ drained = <<>>
    /\ cmsg = NoMsg /\ cwire = <<>> /\ cout = NoMsg
    /\ removed = FALSE
    /\ paths = {}
    /\ call = [op |-> "none", res |-> "nil", from |-> "new", failAt |-> 0]
    /\ complete = FALSE
    /\ status = "none"
    /\ runNew = 0
    /\ runLoop = 0
    /\ completedFired = 0
    /\ dropZone = {}
    /\ badFiles = 0
    /\ bitfieldFiles = {}
    /\ opened = {}
    /\ adoptions = EmptyMap
    /\ polled = {}
    /\ polls = 0
    /\ left = 0
    /\ faults = 0
    /\ desync = FALSE
    /\ failed = -1
    /\ bfmtx = "free"
    /\ stTasks = EmptyBag
    /\ stSpawned = 0
    /\ writers = 0
    /\ maxWriters = 0
    /\ setInFlush = FALSE
    /\ failsLeft = 0
    /\ manifests = <<>>
    /\ infohashes = <<>>
    /\ lastChange = "none"
    /\ remaining = <<0, 0, 0, 0>>

SpecNet == InitNet /\ [][NetNext]_vars

\* a download directory with some *.torrent files, some of torrents whose
\* bitfield file is already in the meta directory
InitPoll ==
    /\ dropZone \in SUBSET Hashes /\ badFiles \in 0..1
    /\ bitfieldFiles \in SUBSET Hashes
    /\ opened = {} /\ adoptions = [ih \in Hashes |-> 0] /\ polled = {} /\ polls = 0
    /\ netContext = "nil" /\ suspended = FALSE /\ netacces = "free"
    /\ netTasks = EmptyBag /\ netSpawned = 0 /\ netReturns = {} /\ netFault = FALSE
    /\ ibconns = EmptyMap /\ obconns = EmptyMap /\ conns = <<>>
    /\ closing = FALSE /\ started = FALSE
    /\ tasks = EmptyBag /\ spawned = 0 /\ plist = <<>> /\ apCalls = 0
    /\ apList = <<>>
    /\ apFresh = {} /\ dials = [a \in Remotes \cup {Self} |-> 0] /\ dialFails = {}
    /\ stopPc = "idle" /\ stopLeft = {} /\ announcers = {} /\ ticker = FALSE
    /\ pendingAnn = {} /\ events = <<>> /\ peersAtFlush = 0
    /\ meta = NoManifest /\ disk = <<>> /\ bf = NilBitfield /\ diskBf = NoFile
    /\ lastOp = Op("none", 0, "nil")
    /\ wbuf = <<>> /\ woff = 0 /\ rres = Unread
    /\ input = <<>> /\ pos = 1 /\ data = <<0, 0, 0, 0>>
    /\ rerr = "nil" /\ rstate = "idle" /\ handled = <<>> /\ drained = <<>>
    /\ cmsg = NoMsg /\ cwire = <<>> /\ cout = NoMsg
    /\ removed = FALSE
    /\ paths = {}
    /\ call = [op |-> "none", res |-> "nil", from |-> "new", failAt |-> 0]
    /\ complete = FALSE
    /\ status = "none"
    /\ runNew = 0
    /\ runLoop = 0
    /\ completedFired = 0
    /\ left = 0
    /\ faults = 0
    /\ desync = FALSE
    /\ failed = -1
    /\ bfmtx = "free"
    /\ stTasks = EmptyBag
    /\ stSpawned = 0
    /\ writers = 0
    /\ maxWriters = 0
    /\ setInFlush = FALSE
    /\ failsLeft = 0
    /\ manifests = <<>>
    /\ lastChange = "none"
    /\ infohashes = <<>>
    /\ remaining = <<0, 0, 0, 0>>

SpecPoll == InitPoll /\ [][PollNext]_vars

(***************************************************************************)
(* Claims                                                                  *)
(***************************************************************************)

Range(f) == {f[i] : i \in DOMAIN f}

\* C1: in every reachable state no remote address is a key of both ibconns
\* and obconns, whatever the interleaving of onNewPeer, PersistPeer/DialPeer
\* and disconnects.
C1_NoAddressInBothMaps == DOMAIN ibconns \cap DOMAIN obconns = {}

\* the peer list given to addPeers named a twice
ListedTwice(a) ==
    \E i, j \in DOMAIN apList : i # j /\ apList[i] = a /\ apList[j] = a

\* C2: when the list given to addPeers names an address twice, no connection
\* to it existed at the call and no dial or handshake failed and no
\* connection has ended since, at most one Network().Dial to that address was
\* made, under every interleaving of the PersistPeer tasks.
C2_DuplicateAddressDialedOnce ==
    \A a \in Remotes :
        (/\ ListedTwice(a)
         /\ a \in apFresh
         /\ dialFails = {}
         /\ \A c \in DOMAIN conns : ~conns[c].gone)
            => dials[a] <= 1

\* C3: no PersistPeer task exists and no dial is made for the torrent's own
\* address, the own address is in neither connection map, and the step of
\* addPeers that meets the own address in the list leaves the tasks, the
\* dial counts and the connection maps as they were.
C3_NeverContactsSelf ==
    /\ [](/\ \A t \in BagToSet(tasks) : t.addr # Self
          /\ dials[Self] = 0
          /\ Self \notin DOMAIN ibconns \cup DOMAIN obconns)
    /\ [][(plist # <<>> /\ Head(plist) = Self /\ plist' = Tail(plist))
             => UNCHANGED <<tasks, spawned, dials, ibconns, obconns, conns>>]_vars

\* addPeers has gone through a list that named the own address and a remote
\* one, and the remote one was dialed
C3_Witness ==
    /\ apCalls = 1 /\ plist = <<>>
    /\ Self \in Range(apList)
    /\ \E a \in Remotes : a \in Range(apList) /\ dials[a] > 0


\* the content bytes of piece i on disk hash to the manifest's digest
PieceMatches(i) == VisitPieceCheck(disk, meta, i) = "nil"

\* C4: a PutPiece whose hash check and write both succeed returns nil and
\* leaves bit p.Index set in the torrent's bitfield, also on a torrent just
\* opened, whose Bitfield() has not been called yet.
C4_PutPieceSetsBit ==
    (lastOp.op = "PutPiece" /\ lastOp.res \notin {"ErrInvalidPiece", "io"})
        => (lastOp.res = "nil" /\ bf # NilBitfield /\ BfHas(bf, lastOp.idx))

\* C5: once VerifyAll has returned, with or without an error, every bit set
\* in the bitfield file denotes a piece whose bytes on disk match the manifest.
C5_PersistedBitsMatchAfterVerifyAll ==
    (lastOp.op = "VerifyAll" /\ diskBf # NoFile)
        => \A i \in diskBf : PieceMatches(i)

\* C6 (as claimed): WriteAt(x, off) with off + len(x) within the content,
\* then ReadAt(buf, off) with len(buf) = len(x), returns n = len(x), a nil
\* error and buf = x.
C6_ReadBackAnyBuffer ==
    lastOp.op = "ReadAt"
        => rres = [n |-> Len(wbuf), bytes |-> wbuf, err |-> "nil"]

\* C6 (amended): the same for every offset before the end of the content,
\* so for every non-empty buffer; the range may span file boundaries and
\* zero-length files.
C6_ReadBackBeforeEnd ==
    (lastOp.op = "ReadAt" /\ woff < TotalSize(meta))
        => rres = [n |-> Len(wbuf), bytes |-> wbuf, err |-> "nil"]

\* a non-zero buffer was written across a file boundary, over a zero-length
\* file, and read back
C6_Witness ==
    /\ lastOp.op = "ReadAt"
    /\ Len(GetFiles(meta)) = 3
    /\ woff = 0 /\ wbuf = <<1, 0, 1>>
    /\ rres.bytes = <<1, 0, 1>>
    /\ disk = <<(<<1>>), (<<>>), (<<0, 1>>)>>

\* the frames before pos whose length prefix is in range, in arrival order
RECURSIVE InRangeUpTo(_)
InRangeUpTo(k) ==
    IF k = 0 THEN <<>>
    ELSE IF input[k] > 0 /\ input[k] <= MaxWireMessageSize
         THEN Append(InRangeUpTo(k - 1), k)
         ELSE InRangeUpTo(k - 1)

\* C7: the handler has been invoked exactly once, in arrival order, for every
\* frame read so far whose length prefix L has 0 < L <= MaxWireMessageSize.
C7_InRangeFramesHandledInOrder == handled = InRangeUpTo(pos - 1)

\* C8: a frame whose length prefix exceeds the limit is never passed to the
\* handler and never makes ReadWireMessages crash or return: its bytes are
\* drained and the reader goes on to the frames that follow.
C8_OversizeFrameDrained ==
    /\ rstate # "panic"
    /\ \A i \in 1..Len(handled) : input[handled[i]] <= MaxWireMessageSize
    /\ \A k \in 1..(pos - 1) :
          input[k] > MaxWireMessageSize => \E i \in 1..Len(drained) : drained[i] = k
    /\ (rstate = "returned" /\ rerr = "EOF") => pos > Len(input)

\* the value a message stands for, as the parsers return it
MsgValue(m) ==
    CASE m.kind = "request" ->
           [Index |-> m.Index, Begin |-> m.Begin, Length |-> m.Length]
      [] m.kind = "piece" ->
           [Index |-> m.Index, Begin |-> m.Begin, Data |-> m.Data]
      [] m.kind = "have" -> m.Index

\* C9: parsing a serialized message returns the original, for every
\* PieceRequest, every PieceData of any data length and every Have index.
C9_ParseSerializeRoundTrip ==
    cout # NoMsg => cout.val = MsgValue(cmsg)


\* the steps of Stop, in the order the log has them
StopSteps ==
    SelectSeq(events, LAMBDA x : x.e \in {"closing", "closePeers", "waitDone",
                                          "flush", "tickerStop", "stopped"})

StopOrder == <<"closing", "closePeers", "waitDone", "flush", "tickerStop">>

\* C10: Stop sets closing, closes the peers, waits for the peer count to be
\* zero, flushes the store, stops the ticker and announces stopped to the
\* trackers, in this order; no flush happens while a peer is in ibconns or
\* obconns, and every stopped announce comes after the flush.
C10_StopStepsInOrder ==
    /\ \A i \in DOMAIN StopSteps :
          StopSteps[i].e = IF i <= Len(StopOrder) THEN StopOrder[i] ELSE "stopped"
    /\ peersAtFlush = 0

\* C11: after Remove has returned, from whatever lifecycle state it was
\* called in (never started, running, already stopped), the torrent is
\* stopped and RemoveSelf has been invoked.
C11_RemoveAlwaysUnregisters ==
    call.op = "Remove" => (closing /\ removed)

\* C12: after Delete has returned nil, from whatever lifecycle state, the
\* torrent is stopped (closing is set), neither the manifest file nor the
\* bitfield file nor the content path exists and RemoveSelf has been invoked;
\* when a RemoveAll step fails, Delete returns that step's error.
C12_DeleteRemovesEverything ==
    call.op = "Delete" =>
        /\ call.res = IF call.failAt = 0 THEN "nil" ELSE DeleteOrder[call.failAt]
        /\ call.res = "nil" => (closing /\ paths = {} /\ removed)

\* Delete has returned nil on a running torrent whose flush had made the
\* bitfield file
C12_Witness ==
    /\ call = [op |-> "Delete", res |-> "nil", from |-> "running", failAt |-> 0]
    /\ paths = {} /\ removed /\ closing


\* C16: GetStatus reports stopped for a torrent that has been stopped and not
\* started since, seeding for a running torrent with every piece, and
\* downloading for a running torrent with a piece missing.
C16_StatusIsOneOfThree ==
    call.op = "GetStatus" =>
        status = IF closing THEN "stopped"
                 ELSE IF complete THEN "seeding" ELSE "downloading"

\* the announces made to the tracker name that carried the event e
Announced(e, name) == {i \in DOMAIN events : events[i] = Ev(e, name)}

\* C13: to each tracker the event completed is announced at most once; the
\* later periodic announces of a complete torrent carry nop.
C13_CompletedAnnouncedOnce ==
    \A name \in Trackers : Cardinality(Announced("completed", name)) <= 1

\* C14: a Network() call that began while the torrent was suspended, after
\* LostNetwork had returned, returns only after an ObtainedNetwork call was
\* made and returns a transport, never nil.
C14_NetworkWaitsForTransport ==
    \A r \in netReturns : r.atStart => (r.since /\ r.n # "nil")

\* C15: when a poll returns a torrent for a drop-zone file, a bitfield file
\* exists for its infohash on return, and so no file is adopted by more than
\* one poll, also when Bitfield() is never called in between.
C15_DropZoneFileAdoptedOnce ==
    /\ polled \subseteq bitfieldFiles
    /\ \A ih \in Hashes : adoptions[ih] <= 1

\* C17: the first message enqueued to an admitted peer is our bitfield: no
\* have of a concurrent broadcastHave comes before it.
C17_BitfieldIsFirstMessage ==
    \A c \in DOMAIN conns :
        conns[c].out # <<>> => Head(conns[c].out) = "bitfield"

\* C18: a PutPiece that returns an error (the piece does not hash-match the
\* manifest, or the write fails) leaves the bitfield as it was, and a
\* hash-mismatch leaves every content file as it was.
PutPieceFailed(op) == op.op = "PutPiece" /\ op.res \notin {"nil", "panic"}

C18_FailedPutLeavesBitfield ==
    [][PutPieceFailed(lastOp') =>
          /\ bf' = bf
          /\ lastOp'.res = "ErrInvalidPiece" => disk' = disk]_vars

\* a write failed under a torrent whose bitfield is loaded
C18_Witness ==
    /\ PutPieceFailed(lastOp)
    /\ lastOp.res = "io"
    /\ bf # NilBitfield
    /\ lastOp.idx \notin bf

\* C19: once VerifyAll(fresh = true) has returned, whatever bitfield file was
\* stored before it, Bitfield() has bit i exactly when the bytes of piece i on
\* disk match the manifest (so every bit, when all content is in place).
C19_FreshVerifyChecksEveryPiece ==
    (lastOp.op = "VerifyAll" /\ lastOp.idx = 1)
        => Bitfield(bf, diskBf).bf = {i \in Inverted(NumPieces(meta)) : PieceMatches(i)}

\* C20: once a read of a length prefix or of a body has failed or met the end
\* of the reader, ReadWireMessages has returned a non-nil error and the
\* handler has been invoked for nothing since.
C20_ReadFailureEndsReading ==
    failed # -1 =>
        /\ rstate = "returned"
        /\ rerr # "nil"
        /\ Len(handled) = failed

\* C21: at most one call is inside flushBitfield (between opening and closing
\* the bitfield file) at any time, and no PutPiece sets a bit of the bitfield
\* while a flushBitfield is encoding it.
C21_OneFlushAtATime == maxWriters <= 1 /\ ~setInFlush

\* C22: when Start has returned nil the torrent is marked started, and after
\* any sequence of Start and Stop calls at most one run loop is active and
\* the Completed callback has fired at most once for the one completion.
C22_OneRunLoop ==
    /\ (call.op = "Start" /\ call.res = "nil") => started
    /\ runNew + runLoop <= 1
    /\ completedFired <= 1

\* the dials and handshakes that have failed so far
PersistFailures == MaxPersistFails - failsLeft

PersistTasks == {t \in BagToSet(tasks) : t.kind = "persist"}

\* C23: one PersistPeer(a) call sees at most 10 DialPeer attempts fail and has
\* returned once the 10th has failed; it has returned once an outbound
\* connection of its own is started; and when it finds an inbound connection
\* from a in the map it returns on the spot, without dialing.
C23_PersistPeerBoundedRetries ==
    /\ [](/\ PersistFailures <= InitialTries
          /\ PersistFailures = InitialTries => PersistTasks = {}
          /\ (\E c \in DOMAIN conns : ~conns[c].inbound /\ conns[c].started)
                => PersistTasks = {}
          /\ dials["a"] <= PersistFailures + 1)
    /\ [][(\E t \in PersistTasks : t.pc = "hasIB" /\ HasIBConn(t.addr)
                                   /\ t \notin BagToSet(tasks'))
             => (PersistTasks' = {} /\ dials' = dials)]_vars

\* the tenth dial has failed and PersistPeer has returned
C23_Witness ==
    /\ PersistFailures = InitialTries
    /\ dials["a"] = InitialTries
    /\ PersistTasks = {}

\* C25: a handshake that does not end in a match (the reply cannot be read,
\* or it carries another infohash) inserts nothing into obconns and makes
\* DialPeer return an error: PersistPeer counts one more failed attempt, and
\* returns only if that was its last.
C25_MismatchCountsAsFailure ==
    [][(failsLeft' < failsLeft /\ dials' = dials) =>
          /\ obconns' = obconns
          /\ \E t \in PersistTasks :
                /\ t.pc = "handshake"
                /\ IF t.tries > 1
                   THEN tasks' = Replace(t, [t EXCEPT !.tries = t.tries - 1, !.pc = "loop"])
                   ELSE tasks' = tasks (-) SetToBag({t})]_vars

\* C24: if closing is set and stays set from some point on, then from some
\* point on no run goroutine of the torrent is left: each has seen it and ended.
C24_ClosingEndsRunLoop == (<>[]closing) => <>[](runNew + runLoop = 0)

\* C26: two manifests with different info dictionaries, with or without a
\* meta version field, never get the same infohash, and so never the same
\* manifest or bitfield file in the meta directory.
C26_InfohashIdentifies ==
    (infohashes["A"] # NoHash /\ infohashes["B"] # NoHash /\ manifests["A"] # manifests["B"])
        => /\ infohashes["A"] # infohashes["B"]
           /\ bitfieldFilename(infohashes["A"]) # bitfieldFilename(infohashes["B"])
           /\ metainfoFilename(infohashes["A"]) # metainfoFilename(infohashes["B"])

\* C27: ObtainedNetwork never unlocks netacces while it is not held, and when
\* every LostNetwork and ObtainedNetwork call has returned and the one that
\* began last was ObtainedNetwork(n), the torrent is not suspended and its
\* transport is n.
C27_ObtainedNetworkRestores ==
    /\ ~netFault
    /\ (lastChange \in Transports /\ ~NetworkChanging)
          => (~suspended /\ netContext = lastChange)

\* C28: a Close that has set closing eventually returns (its wait for the
\* peer count to reach zero ends and the store is flushed), whatever dials
\* and inbound admissions go on beside it.
C28_CloseReturns == (stopPc = "visit") ~> (stopPc \in {"ticker", "announce", "done"})

\* C29: for each tracker, nothing is announced to it after the stopped
\* announce of StopAnnouncing (no StartAnnouncing call follows in between).
C29_StoppedIsLastAnnounce ==
    \A i \in DOMAIN events : \A j \in DOMAIN events :
        (i < j /\ events[i].e = "stopped") => events[j].name # events[i].name

\* C30: every connection that has been started and has neither been closed
\* nor ended is found in ibconns (inbound) or obconns (outbound) under its
\* remote address.
C30_RunningConnIsInMap ==
    \A c \in DOMAIN conns :
        (conns[c].started /\ ~conns[c].closed /\ ~conns[c].gone)
            => LET m == IF conns[c].inbound THEN ibconns ELSE obconns
               IN  conns[c].addr \in DOMAIN m /\ m[conns[c].addr] = c

\* C31: what DownloadRemaining returns never exceeds the torrent's total
\* size, and is 0 when every piece's bit is set, also for a manifest whose
\* last piece is shorter than the piece length.
C31_RemainingWithinTotal ==
    lastOp.op = "DownloadRemaining" =>
        /\ Le64(remaining, ToUint64(TotalSize(meta)))
        /\ bf = Inverted(NumPieces(meta)) => remaining = ToUint64(0)

====
